---------------------------- MODULE Spec2Model ----------------------------
(***************************************************************************)
(* lazypr: the commit classifier (utils/git.ts) and the configuration      *)
(* store (utils/config.ts).                                                *)
(*                                                                         *)
(* A string is a sequence of characters.  An ASCII character is written as *)
(* the one-character string holding it; a character outside ASCII is       *)
(* written by its code point ("U+017F").  Chars("abc") is <<"a","b","c">>. *)
(***************************************************************************)
EXTENDS Integers, Sequences, FiniteSets, TLC

VARIABLES
  commits,   \* classifier: the commit list handed to filterCommits
  kept,      \* classifier: filterCommits(commits), once computed
  rekept,    \* classifier: filterCommits(kept), once computed
  probe,     \* classifier: the last shouldFilterCommit call and its variants
  fpc,       \* classifier: position of the classifier run
  file,      \* config: content of ~/.lazypr, or NoFile
  cache,     \* config: Config.cache, a Map in insertion order
  loaded,    \* config: Config.loaded
  last,      \* config: the last completed call, its arguments and outcome
  ops,       \* config: number of calls made so far
  calls,     \* config, overlapping calls: each caller's call and position
  loadPromise, \* config, overlapping calls: Config.loadPromise
  io,        \* config, overlapping calls: what happened to the file so far
  run,       \* command line: the last run of the program and its outcome
  checked,   \* validators: the raw value under validation and the outcome
  gh         \* shell: the pull request and the gh command built from it

vars ==
  <<commits, kept, rekept, probe, fpc, file, cache, loaded, last, ops,
    calls, loadPromise, io, run, checked, gh>>
filterVars == <<commits, kept, rekept, probe, fpc>>
configVars == <<file, cache, loaded, last, ops>>
asyncVars == <<calls, loadPromise, io>>
cliVars == <<run>>
validatorVars == <<checked>>
shellVars == <<gh>>
laterVars == <<asyncVars, cliVars, validatorVars, shellVars>>

(***************************************************************************)
(* Characters and strings                                                  *)
(***************************************************************************)
RECURSIVE Chars(_)
Chars(s) == IF Len(s) = 0 THEN <<>> ELSE <<Head(s)>> \o Chars(Tail(s))

LowerLetters == Chars("abcdefghijklmnopqrstuvwxyz")
UpperLetters == Chars("ABCDEFGHIJKLMNOPQRSTUVWXYZ")
Digits == Chars("0123456789")

Range(f) == {f[i] : i \in DOMAIN f}

\* U+017F LATIN SMALL LETTER LONG S: a lower-case letter outside ASCII whose
\* upper case is the ASCII letter "S".
LongS == "U+017F"
NBSP == "U+00A0"
NonAscii == {LongS, NBSP}

\* String.prototype.toUpperCase / toLowerCase, one character at a time.
ToUpperChar(c) ==
  IF c \in Range(LowerLetters)
    THEN UpperLetters[CHOOSE i \in DOMAIN LowerLetters : LowerLetters[i] = c]
    ELSE IF c = LongS THEN "S" ELSE c

ToLowerChar(c) ==
  IF c \in Range(UpperLetters)
    THEN LowerLetters[CHOOSE i \in DOMAIN UpperLetters : UpperLetters[i] = c]
    ELSE c

ToUpperCase(s) == [i \in DOMAIN s |-> ToUpperChar(s[i])]
ToLowerCase(s) == [i \in DOMAIN s |-> ToLowerChar(s[i])]

\* WhiteSpace and LineTerminator of ECMAScript: what trim() strips and what \s
\* matches.
WhiteSpace == {" ", "\t", "\n", "\r", "\f", NBSP}
LineTerminator == {"\n", "\r"}

RECURSIVE TrimStart(_)
TrimStart(s) ==
  IF s # <<>> /\ Head(s) \in WhiteSpace THEN TrimStart(Tail(s)) ELSE s

RECURSIVE TrimEnd(_)
TrimEnd(s) ==
  IF s # <<>> /\ s[Len(s)] \in WhiteSpace
    THEN TrimEnd(SubSeq(s, 1, Len(s) - 1)) ELSE s

Trim(s) == TrimEnd(TrimStart(s))

(***************************************************************************)
(* Regular expressions (RegExp.prototype.test)                             *)
(*                                                                         *)
(* A pattern is a tree of records; Ends(re, s, from, ic) is the set of     *)
(* positions at which a match of re that starts at a position of `from`    *)
(* can end.  ic is the /i flag.                                            *)
(***************************************************************************)
Bol == [t |-> "bol"]
Eol == [t |-> "eol"]
Chr(c) == [t |-> "chr", c |-> c]
Cls(set) == [t |-> "set", neg |-> FALSE, s |-> set]
NotCls(set) == [t |-> "set", neg |-> TRUE, s |-> set]
Cat(a) == [t |-> "seq", a |-> a]
Alt(a) == [t |-> "alt", a |-> a]
Rep(r, min, max) == [t |-> "rep", r |-> r, min |-> min, max |-> max, inf |-> FALSE]
AtLeast(r, min) == [t |-> "rep", r |-> r, min |-> min, max |-> min, inf |-> TRUE]
Plus(r) == AtLeast(r, 1)
Star(r) == AtLeast(r, 0)
Opt(r) == Rep(r, 0, 1)
Lit(str) == Cat([i \in DOMAIN Chars(str) |-> Chr(Chars(str)[i])])

Space == Cls(WhiteSpace)          \* \s
Digit == Cls(Range(Digits))       \* \d
Dot == NotCls(LineTerminator)     \* .

\* Canonicalize of ECMAScript 22.2.5.6 for a pattern without the u flag: the
\* upper-cased character, except that a character outside ASCII is never
\* folded onto an ASCII one.
Canonicalize(c, ic) ==
  IF ~ic THEN c
  ELSE LET u == ToUpperChar(c)
       IN IF c \in NonAscii /\ u \notin NonAscii THEN c ELSE u

CharMatches(re, c, ic) ==
  IF re.t = "chr"
    THEN Canonicalize(re.c, ic) = Canonicalize(c, ic)
    ELSE (Canonicalize(c, ic) \in {Canonicalize(m, ic) : m \in re.s}) # re.neg

RECURSIVE Ends(_, _, _, _), EndsCat(_, _, _, _, _), EndsRep(_, _, _, _, _, _)

Ends(re, s, from, ic) ==
  CASE re.t = "bol" -> {i \in from : i = 1}
    [] re.t = "eol" -> {i \in from : i = Len(s) + 1}
    [] re.t \in {"chr", "set"} ->
         {i + 1 : i \in {j \in from : j <= Len(s) /\ CharMatches(re, s[j], ic)}}
    [] re.t = "seq" -> EndsCat(re.a, 1, s, from, ic)
    [] re.t = "alt" -> UNION {Ends(re.a[k], s, from, ic) : k \in DOMAIN re.a}
    [] re.t = "rep" -> EndsRep(re, s, from, 0, {}, ic)

EndsCat(a, k, s, from, ic) ==
  IF k > Len(a) \/ from = {} THEN from
  ELSE EndsCat(a, k + 1, s, Ends(a[k], s, from, ic), ic)

\* cur: the positions reached after exactly n repetitions; acc: the positions
\* already reached after min..n-1 repetitions.
EndsRep(re, s, cur, n, acc, ic) ==
  IF n < re.min
    THEN IF cur = {} THEN {} ELSE EndsRep(re, s, Ends(re.r, s, cur, ic), n + 1, {}, ic)
    ELSE LET new == cur \ acc
         IN IF new = {} \/ (~re.inf /\ n >= re.max)
              THEN acc \cup cur
              ELSE EndsRep(re, s, Ends(re.r, s, new, ic), n + 1, acc \cup cur, ic)

\* pattern.test(s) for a pattern without the g and y flags: a match may start
\* anywhere.
Test(pattern, s) == Ends(pattern.re, s, 1 .. Len(s) + 1, pattern.ic) # {}

RegExpI(a) == [re |-> Cat(a), ic |-> TRUE]
RegExp(a) == [re |-> Cat(a), ic |-> FALSE]

(***************************************************************************)
(* Commit classifier                                                       *)
(***************************************************************************)
Word(str) == Lit(str)
OneOf(strs) == Alt([i \in DOMAIN strs |-> Lit(strs[i])])
Sp == Plus(Space)

MERGE_COMMIT_PATTERNS == <<
  RegExpI(<<Bol, Word("merge"), Sp,
            Alt(<<Lit("branch"),
                  Cat(<<Lit("pull"), Sp, Lit("request")>>),
                  Cat(<<Lit("remote-tracking"), Sp, Lit("branch")>>)>>)>>),
  RegExpI(<<Bol, Word("merge"), Sp, Plus(Dot), Sp, Lit("into"), Sp, Plus(Dot)>>),
  RegExpI(<<Bol, Word("merged"), Sp, Lit("in"), Sp>>) >>

DEPENDENCY_UPDATE_PATTERNS == <<
  RegExpI(<<Bol, OneOf(<<"bump", "update", "upgrade">>), Sp,
            OneOf(<<"dependencies", "deps", "dependency">>)>>),
  RegExpI(<<Bol, Lit("chore(deps)")>>),
  RegExpI(<<Bol, Lit("build(deps)")>>),
  RegExpI(<<Bol, Lit("[deps]")>>),
  RegExpI(<<Bol, OneOf(<<"npm", "yarn", "pnpm", "bun">>), Sp, Lit("update")>>),
  RegExpI(<<Bol, Lit("update"), Sp, Star(Dot), Sp,
            OneOf(<<"package", "packages", "dependency", "dependencies">>)>>),
  RegExpI(<<Bol, Lit("upgrade"), Sp, Star(Dot), Sp, Lit("to"), Sp,
            Opt(Chr("v")), Plus(Digit), Chr("."), Plus(Digit)>>),
  RegExpI(<<Bol, Lit("bump"), Sp, Plus(Dot), Sp, OneOf(<<"from", "to">>), Sp,
            Plus(Digit), Chr("."), Plus(Digit)>>),
  RegExpI(<<Bol, Lit("dependabot")>>),
  RegExpI(<<Bol, Lit("renovate")>>) >>

FORMATTING_PATTERNS == <<
  RegExpI(<<Bol, OneOf(<<"fix", "run", "apply">>), Sp,
            OneOf(<<"formatting", "linting", "lint", "prettier", "eslint">>)>>),
  RegExpI(<<Bol, Lit("format"), Sp,
            Alt(<<Lit("code"), Cat(<<Lit("file"), Opt(Chr("s"))>>)>>)>>),
  RegExpI(<<Bol, OneOf(<<"prettier", "eslint", "style">>), Sp,
            OneOf(<<"fix", "fixes">>)>>),
  RegExpI(<<Bol, Lit("chore(format)")>>),
  RegExpI(<<Bol, Lit("style:")>>),
  RegExpI(<<Bol, Lit("auto"), Opt(Cls({"-", " "})), Lit("format")>>),
  RegExpI(<<Bol, Lit("reformat"), Sp>>),
  RegExpI(<<Bol, Lit("whitespace"), Sp>>),
  RegExpI(<<Bol, Lit("fix"), Sp, Lit("indentation")>>) >>

matchesAnyPattern(message, patterns) ==
  \E k \in DOMAIN patterns : Test(patterns[k], message)

shouldFilterCommit_FiltersBlank(commit) ==
  LET message == Trim(commit.message)
  IN  message = <<>>
      \/ matchesAnyPattern(message, MERGE_COMMIT_PATTERNS)
      \/ matchesAnyPattern(message, DEPENDENCY_UPDATE_PATTERNS)
      \/ matchesAnyPattern(message, FORMATTING_PATTERNS)

shouldFilterCommit_NoTrim(commit) ==
  LET message == commit.message
  IN  matchesAnyPattern(message, MERGE_COMMIT_PATTERNS)
      \/ matchesAnyPattern(message, DEPENDENCY_UPDATE_PATTERNS)
      \/ matchesAnyPattern(message, FORMATTING_PATTERNS)

shouldFilterCommit_MergeOnly(commit) ==
  matchesAnyPattern(Trim(commit.message), MERGE_COMMIT_PATTERNS)

shouldFilterCommit(commit) ==
  LET message == Trim(commit.message)
  IN  IF matchesAnyPattern(message, MERGE_COMMIT_PATTERNS) THEN TRUE
      ELSE IF matchesAnyPattern(message, DEPENDENCY_UPDATE_PATTERNS) THEN TRUE
      ELSE IF matchesAnyPattern(message, FORMATTING_PATTERNS) THEN TRUE
      ELSE FALSE

\* Array.prototype.filter is SelectSeq.
filterCommits_SkipsFirst(cs) ==
  IF cs = <<>> THEN <<>>
  ELSE SelectSeq(Tail(cs), LAMBDA commit : ~shouldFilterCommit(commit))

filterCommits_KeepsFiltered(cs) ==
  SelectSeq(cs, LAMBDA commit : shouldFilterCommit(commit))

filterCommits(cs) ==
  SelectSeq(cs, LAMBDA commit : ~shouldFilterCommit(commit))

(***************************************************************************)
(* Classifier runs: the inputs                                             *)
(***************************************************************************)
MaxCommits == 3

\* Messages that go into commit lists of every length up to MaxCommits.
LogMessages == {
  Chars("Merge pull request #123 from user/feature"),
  Chars("chore(deps): bump lodash from 4.17.20 to 4.17.21"),
  Chars("run prettier"),
  Chars("feat: add user authentication"),
  Chars("fix: resolve login bug"),
  <<>> }

\* Messages classified one at a time.
FilteredExamples == {
  Chars("Merge branch 'feature' into main"),
  Chars("Merge pull request #123 from user/feature"),
  Chars("chore(deps): bump lodash from 4.17.20 to 4.17.21"),
  Chars("run prettier") }

KeptExamples == {
  Chars("feat: add user authentication"),
  Chars("fix: resolve login bug"),
  Chars("docs: update README"),
  Chars("docs: update README with installation instructions"),
  Chars("refactor: improve database query performance"),
  Chars("test: add unit tests for auth module") }

BlankMessages == { <<>>, Chars("   "), Chars(" \t\n"), <<NBSP>> }

OtherMessages == {
  Chars("Merge remote-tracking branch 'origin/main'"),
  Chars("Merged in feature-branch (pull request #456)"),
  Chars("merge a into b"),
  Chars("bump dependencies"),
  Chars("chore(deps): update packages"),
  Chars("build(deps): bump lodash from 4.17.20 to 4.17.21"),
  Chars("[deps] refresh"),
  Chars("Bump axios from 0.21.1 to 0.21.2"),
  Chars("Update dependency typescript to v5.0.0"),
  Chars("update the lock packages"),
  Chars("npm update packages"),
  Chars("upgrade react to v18.2.0"),
  Chars("dependabot: weekly"),
  Chars("Renovate lockfile"),
  Chars("fix formatting"),
  Chars("apply linting fixes"),
  Chars("format code"),
  Chars("format files"),
  Chars("chore(format): auto-format files"),
  Chars("style: fix indentation"),
  Chars("eslint fixes"),
  Chars("autoformat"),
  Chars("reformat with prettier"),
  Chars("reformat"),
  Chars("whitespace cleanup"),
  Chars("fix indentation"),
  Chars("MERGE BRANCH 'feature'"),
  Chars("BUMP DEPENDENCIES"),
  Chars("FIX FORMATTING"),
  Chars("  Merge branch 'feature'  "),
  Chars("Unmerge branch 'feature'"),
  Chars("feat: merge branch handling"),
  Chars("Stylesheet cleanup"),
  <<LongS>> \o Chars("tyle: tidy"),
  Chars("re") \o <<LongS>> \o Chars("ormat") }

\* The messages the documentation lists under "Understanding What Gets
\* Filtered".
DocumentedExamples == {
  Chars("Merge branch 'feature' into main"),
  Chars("Merge pull request #123"),
  Chars("chore: update dependencies"),
  Chars("bump version to 1.2.3"),
  Chars("Update package.json"),
  Chars("style: format code with prettier"),
  Chars("chore: run eslint --fix"),
  Chars("Fix linting issues") }

Messages ==
  FilteredExamples \cup KeptExamples \cup BlankMessages \cup OtherMessages
    \cup DocumentedExamples

IsAscii(s) == \A i \in DOMAIN s : s[i] \notin NonAscii

SeqsUpTo(S, n) == UNION {[1 .. k -> S] : k \in 0 .. n}

HashOf(i) == Chars("c0ffee") \o <<Digits[i + 1]>>

\* The commit that line i of `git log` is parsed into (getPullRequestCommits).
Commit(i, message) ==
  [hash |-> HashOf(i) \o HashOf(i), shortHash |-> HashOf(i),
   author |-> Chars("dev"), date |-> Chars("2025-01-01"), message |-> message]

CommitList(messages) == [i \in DOMAIN messages |-> Commit(i, messages[i])]

Logs ==
  {CommitList(ms) : ms \in SeqsUpTo(LogMessages, MaxCommits)}
    \cup {CommitList(<<m>>) : m \in Messages}

Pads == {<<>>, <<" ">>, <<"\t", "\n", NBSP>>}
Variants ==
  [kind : {"upper", "lower"}, pre : {<<>>}, post : {<<>>}]
    \cup [kind : {"pad"}, pre : Pads, post : Pads]

VariantOf(v, m) ==
  IF v.kind = "upper" THEN ToUpperCase(m)
  ELSE IF v.kind = "lower" THEN ToLowerCase(m)
  ELSE v.pre \o m \o v.post

NoProbe ==
  [kind |-> "none", message |-> <<>>, verdict |-> FALSE,
   variantMessage |-> <<>>, variantVerdict |-> FALSE]

\* The configuration store before its first use.
NoFile == [exists |-> FALSE, content |-> <<>>]
NoCall ==
  [op |-> "none", key |-> <<>>, arg |-> <<>>,
   result |-> [ok |-> TRUE, value |-> <<>>, error |-> ""], errors |-> <<>>]

\* Overlapping calls on the one Config instance: the callers, none of which
\* has called yet, and a file nobody has read or written.
MaxCallers == 2
Callers == 1 .. MaxCallers

NotCalled ==
  [pc |-> "idle", op |-> "none", key |-> <<>>, value |-> <<>>,
   result |-> [ok |-> TRUE, value |-> <<>>, error |-> ""],
   content |-> <<>>, via |-> "none", at |-> 0]

NoIO == [reads |-> 0, failures |-> 0, foreign |-> 0, snapshot |-> NoFile]

AsyncIdle ==
  /\ calls = [p \in Callers |-> NotCalled]
  /\ loadPromise = "null"
  /\ io = NoIO

\* What a run of the command line finds around it: its arguments, the git
\* repository, the user's choice of a branch and the provider's answer.
NoEnv ==
  [target |-> <<>>, locale |-> <<>>, context |-> <<>>, noFilter |-> FALSE,
   isRepo |-> FALSE, current |-> <<>>, branches |-> <<>>, pick |-> 0,
   git |-> [ok |-> FALSE, log |-> <<>>], generates |-> FALSE]

\* The command line before its first run.
NoRun ==
  [n |-> 0, command |-> "none", type |-> <<>>, keyValue |-> <<>>, key |-> <<>>,
   called |-> <<>>, outcome |-> "none", message |-> "", about |-> <<>>,
   exit |-> 0, shown |-> <<>>, commits |-> <<>>, target |-> <<>>, env |-> NoEnv,
   before |-> NoFile]

CliIdle == run = NoRun

\* The validators before their first use.
NoCheck ==
  [key |-> <<>>, raw |-> <<>>, done |-> FALSE,
   result |-> [ok |-> TRUE, value |-> <<>>, error |-> ""]]

ValidatorIdle == checked = NoCheck

\* The gh command before it is built.
NoCommand ==
  [title |-> <<>>, description |-> <<>>, labels |-> <<>>, targetBranch |-> <<>>,
   done |-> FALSE, by |-> "", command |-> <<>>, clipboard |-> <<>>]

ShellIdle == gh = NoCommand

LaterIdle == AsyncIdle /\ CliIdle /\ ValidatorIdle /\ ShellIdle

ConfigIdle ==
  /\ file = NoFile
  /\ cache = <<>>
  /\ loaded = FALSE
  /\ last = NoCall
  /\ ops = 0

FilterInit ==
  /\ commits \in Logs
  /\ kept = <<>>
  /\ rekept = <<>>
  /\ probe = NoProbe
  /\ fpc = "start"
  /\ ConfigIdle
  /\ LaterIdle

\* filterCommits(commits)
FilterCommits ==
  /\ fpc = "start"
  /\ kept' = filterCommits(commits)
  /\ fpc' = "filtered"
  /\ UNCHANGED <<commits, rekept, probe, configVars, laterVars>>

\* filterCommits applied to its own result
FilterAgain ==
  /\ fpc = "filtered"
  /\ rekept' = filterCommits(kept)
  /\ fpc' = "refiltered"
  /\ UNCHANGED <<commits, kept, probe, configVars, laterVars>>

\* shouldFilterCommit(commits[i])
ShouldFilterCommit(i) ==
  /\ fpc = "start"
  /\ probe' = [kind |-> "call", message |-> commits[i].message,
               verdict |-> shouldFilterCommit(commits[i]),
               variantMessage |-> <<>>, variantVerdict |-> FALSE]
  /\ fpc' = "classified"
  /\ UNCHANGED <<commits, kept, rekept, configVars, laterVars>>

\* shouldFilterCommit on commits[i] and on the same commit with its message
\* re-cased or padded with white space
ShouldFilterVariant(i, v) ==
  /\ fpc = "start"
  /\ LET m == VariantOf(v, commits[i].message)
     IN probe' = [kind |-> "variant", message |-> commits[i].message,
                  verdict |-> shouldFilterCommit(commits[i]),
                  variantMessage |-> m,
                  variantVerdict |-> shouldFilterCommit(Commit(i, m))]
  /\ fpc' = "classified"
  /\ UNCHANGED <<commits, kept, rekept, configVars, laterVars>>

FilterNext ==
  \/ FilterCommits
  \/ FilterAgain
  \/ \E i \in DOMAIN commits : ShouldFilterCommit(i)
  \/ \E i \in DOMAIN commits : \E v \in Variants : ShouldFilterVariant(i, v)

SpecFilter == FilterInit /\ [][FilterNext]_vars

(***************************************************************************)
(* Classifier properties                                                   *)
(***************************************************************************)
Occurrences(s, x) == Cardinality({i \in DOMAIN s : s[i] = x})
IndexIn(s, x) == CHOOSE i \in DOMAIN s : s[i] = x
Filtered == fpc \in {"filtered", "refiltered"}
PatternLists ==
  <<MERGE_COMMIT_PATTERNS, DEPENDENCY_UPDATE_PATTERNS, FORMATTING_PATTERNS>>

\* C4: filterCommits(commits) is exactly the subsequence of the commits that
\* shouldFilterCommit does not flag: each of them once, in input order, and
\* nothing else.
C4_FilterIsSubsequence ==
  Filtered =>
    /\ \A i \in DOMAIN commits :
         Occurrences(kept, commits[i])
           = IF shouldFilterCommit(commits[i]) THEN 0 ELSE 1
    /\ \A k \in DOMAIN kept : kept[k] \in Range(commits)
    /\ \A j, k \in DOMAIN kept :
         j < k => IndexIn(commits, kept[j]) < IndexIn(commits, kept[k])

C4_Witness ==
  /\ fpc = "filtered"
  /\ Len(commits) = 3
  /\ kept = <<commits[1], commits[3]>>

C6_TotalAndEmptyKept ==
  /\ probe.kind # "none" =>
       /\ probe.verdict \in BOOLEAN
       /\ probe.variantVerdict \in BOOLEAN
       /\ probe.message = <<>> => probe.verdict = FALSE
  /\ Filtered =>
       \A i \in DOMAIN commits :
         commits[i].message = <<>> => commits[i] \in Range(kept)

C6_Witness ==
  /\ probe.kind = "call"
  /\ probe.message = <<>>
  /\ probe.verdict = FALSE

\* C7: filtering a filtered list changes nothing.
C7_FilterIdempotent == fpc = "refiltered" => rekept = kept

C7_Witness ==
  /\ fpc = "refiltered"
  /\ Len(commits) = 3
  /\ Len(kept) = 2
  /\ rekept = kept

\* C8 as stated: every message classifies like its upper-cased, lower-cased
\* and white-space-padded forms.
C8_CaseAndPaddingInvariant ==
  probe.kind = "variant" => probe.variantVerdict = probe.verdict

\* C8, amended: the same for every message made of ASCII characters.
C8_AsciiCaseAndPaddingInvariant ==
  probe.kind = "variant" /\ IsAscii(probe.message) =>
    probe.variantVerdict = probe.verdict

C8_Witness ==
  /\ probe.kind = "variant"
  /\ probe.message = Chars("bump dependencies")
  /\ probe.variantMessage = Chars("BUMP DEPENDENCIES")
  /\ probe.verdict
  /\ probe.variantVerdict

(***************************************************************************)
(* String helpers of the configuration store                               *)
(***************************************************************************)
\* String.prototype.indexOf for one character; 0 when absent.
IndexOf(s, c) ==
  IF \E i \in DOMAIN s : s[i] = c
    THEN CHOOSE i \in DOMAIN s : s[i] = c /\ \A j \in 1 .. i - 1 : s[j] # c
    ELSE 0

\* String.prototype.split on a one-character separator.
RECURSIVE Split(_, _)
Split(s, c) ==
  LET i == IndexOf(s, c)
  IN IF i = 0 THEN <<s>>
     ELSE <<SubSeq(s, 1, i - 1)>> \o Split(SubSeq(s, i + 1, Len(s)), c)

\* Array.prototype.join
RECURSIVE Join(_, _)
Join(parts, sep) ==
  IF parts = <<>> THEN <<>>
  ELSE IF Len(parts) = 1 THEN parts[1]
  ELSE parts[1] \o sep \o Join(Tail(parts), sep)

StartsWith(s, prefix) ==
  Len(s) >= Len(prefix) /\ SubSeq(s, 1, Len(prefix)) = prefix

ArrayMap(a, F(_)) == [i \in DOMAIN a |-> F(a[i])]

RECURSIVE IntToChars(_)
IntToChars(n) ==
  IF n < 10 THEN <<Digits[n + 1]>>
  ELSE IntToChars(n \div 10) \o <<Digits[(n % 10) + 1]>>

(***************************************************************************)
(* Number.parseInt(v, 10) and Number.prototype.toString                    *)
(*                                                                         *)
(* A Number is NaN or a sign and the decimal digits of an integer.  The    *)
(* digits are kept as written, which is what an IEEE double does for the   *)
(* integers used here (at most 15 significant digits, followed by zeros).  *)
(***************************************************************************)
NaN == [nan |-> TRUE, neg |-> FALSE, digits |-> <<>>]

RECURSIVE DigitPrefix(_)
DigitPrefix(s) ==
  IF s # <<>> /\ Head(s) \in Range(Digits)
    THEN <<Head(s)>> \o DigitPrefix(Tail(s)) ELSE <<>>

RECURSIVE StripLeadingZeros(_)
StripLeadingZeros(d) ==
  IF Len(d) > 1 /\ Head(d) = "0" THEN StripLeadingZeros(Tail(d)) ELSE d

RECURSIVE StripTrailingZeros(_)
StripTrailingZeros(d) ==
  IF Len(d) > 1 /\ d[Len(d)] = "0"
    THEN StripTrailingZeros(SubSeq(d, 1, Len(d) - 1)) ELSE d

parseInt(v) ==
  LET s == TrimStart(v)
      signed == s # <<>> /\ Head(s) \in {"+", "-"}
      body == IF signed THEN Tail(s) ELSE s
      d == DigitPrefix(body)
  IN IF d = <<>> THEN NaN
     ELSE [nan |-> FALSE, neg |-> signed /\ Head(s) = "-",
           digits |-> StripLeadingZeros(d)]

IsZero(num) == ~num.nan /\ num.digits = <<"0">>
IsNegative(num) == ~num.nan /\ num.neg /\ ~IsZero(num)   \* num < 0

\* Number::toString(10): plain digits below 10^21, exponent notation from
\* 10^21 on.
NumberToString(num) ==
  IF num.nan THEN Chars("NaN")
  ELSE LET sign == IF IsNegative(num) THEN <<"-">> ELSE <<>>
           d == num.digits
           m == StripTrailingZeros(d)
       IN IF Len(d) <= 21 THEN sign \o d
          ELSE sign \o <<Head(m)>>
                 \o (IF Len(m) > 1 THEN <<".">> \o Tail(m) ELSE <<>>)
                 \o Chars("e+") \o IntToChars(Len(d) - 1)

(***************************************************************************)
(* new URL(url): the rules of the URL parser that the configuration        *)
(* exercises.  A URL without a base needs a scheme, and a URL of a special *)
(* scheme (http, https) needs a host.                                      *)
(***************************************************************************)
Letters == Range(LowerLetters) \cup Range(UpperLetters)
Alnum == Letters \cup Range(Digits)

SchemePattern ==
  RegExp(<<Bol, Cls(Letters), Star(Cls(Alnum \cup {"+", "-", "."})), Chr(":")>>)

SpecialWithHostPattern ==
  RegExpI(<<Bol, Lit("http"), Opt(Chr("s")), Chr(":"), Star(Cls({"/", "\\"})),
            NotCls(WhiteSpace \cup {"/", "\\", "?", "#", ":", "@"})>>)

SpecialPattern == RegExpI(<<Bol, Lit("http"), Opt(Chr("s")), Chr(":")>>)

IsURL(url) ==
  /\ Test(SchemePattern, url)
  /\ Test(SpecialPattern, url) => Test(SpecialWithHostPattern, url)

(***************************************************************************)
(* CONFIG_SCHEMA                                                           *)
(***************************************************************************)
MIN_API_KEY_LENGTH == 20
MAX_CONTEXT_LENGTH == 200
MAX_CUSTOM_LABELS == 17
MAX_LABEL_NAME_LENGTH == 50

\* A validator returns its normalized value or throws an Error.
Ok(value) == [ok |-> TRUE, value |-> value, error |-> ""]
Throw(message) == [ok |-> FALSE, value |-> <<>>, error |-> message]

\* x || fallback, for strings
OrElse(x, fallback) == IF x = <<>> THEN fallback ELSE x

ApiKeyPattern ==
  RegExp(<<Bol, AtLeast(Cls(Alnum \cup {".", "_", "-"}), MIN_API_KEY_LENGTH), Eol>>)

LabelNamePattern ==
  RegExp(<<Bol, Cls(Letters),
           Rep(Cls(Alnum \cup {"_", "-"}), 0, MAX_LABEL_NAME_LENGTH - 1), Eol>>)

AllowedProviders == {Chars("groq"), Chars("cerebras"), Chars("openai")}

AllowedLocales ==
  {Chars("en"), Chars("es"), Chars("pt"), Chars("fr"), Chars("de"), Chars("it"),
   Chars("ja"), Chars("ko"), Chars("zh"), Chars("ru"), Chars("nl"), Chars("pl"),
   Chars("tr")}

PROVIDER_validate(v) ==
  LET provider == OrElse(ToLowerCase(Trim(v)), Chars("groq"))
  IN IF provider \notin AllowedProviders
       THEN Throw("PROVIDER must be one of: groq, cerebras, openai")
       ELSE Ok(provider)

GROQ_API_KEY_validate(v) ==
  IF Trim(v) = <<>> THEN Ok(<<>>)
  ELSE IF ~Test(ApiKeyPattern, Trim(v)) THEN Throw("Invalid GROQ_API_KEY format")
  ELSE Ok(Trim(v))

CEREBRAS_API_KEY_validate(v) ==
  IF Trim(v) = <<>> THEN Ok(<<>>)
  ELSE IF ~Test(ApiKeyPattern, Trim(v)) THEN Throw("Invalid CEREBRAS_API_KEY format")
  ELSE Ok(Trim(v))

OPENAI_API_KEY_validate(v) ==
  IF Trim(v) = <<>> THEN Ok(<<>>) ELSE Ok(Trim(v))

OPENAI_BASE_URL_validate(v) ==
  IF Trim(v) = <<>> THEN Ok(<<>>)
  ELSE IF ~IsURL(Trim(v)) THEN Throw("Invalid OPENAI_BASE_URL format")
  ELSE Ok(Trim(v))

LOCALE_validate(v) ==
  LET locale == OrElse(ToLowerCase(Trim(v)), Chars("en"))
  IN IF locale \notin AllowedLocales
       THEN Throw("LOCALE must be one of the allowed locales")
       ELSE Ok(locale)

MAX_RETRIES_validate(v) ==
  LET num == parseInt(v)
  IN IF num.nan \/ IsNegative(num)
       THEN Throw("MAX_RETRIES must be a non-negative number")
       ELSE Ok(NumberToString(num))

TIMEOUT_validate(v) ==
  LET num == parseInt(v)
  IN IF num.nan \/ IsNegative(num)
       THEN Throw("TIMEOUT must be a non-negative number")
       ELSE Ok(NumberToString(num))

DEFAULT_BRANCH_validate(v) == Ok(OrElse(ToLowerCase(Trim(v)), Chars("main")))

MODEL_validate(v) ==
  IF Trim(v) = <<>> THEN Throw("MODEL cannot be empty") ELSE Ok(Trim(v))

FILTER_COMMITS_validate(v) ==
  LET value == ToLowerCase(Trim(v))
  IN IF value # Chars("true") /\ value # Chars("false")
       THEN Throw("FILTER_COMMITS must be either 'true' or 'false'")
       ELSE Ok(value)

\* CONTEXT.validate with the limit test written as >= instead of >.
CONTEXT_validate_RejectsAtLimit(v) ==
  LET context == Trim(v)
  IN IF Len(context) >= MAX_CONTEXT_LENGTH
       THEN Throw("CONTEXT must be 200 characters or less")
       ELSE Ok(context)

CONTEXT_validate(v) ==
  LET context == Trim(v)
  IN IF Len(context) > MAX_CONTEXT_LENGTH
       THEN Throw("CONTEXT must be 200 characters or less")
       ELSE Ok(context)

\* CUSTOM_LABELS.validate with the count test written as >= instead of >.
CUSTOM_LABELS_validate_RejectsAtLimit(v) ==
  LET value == Trim(v)
      labels == SelectSeq(ArrayMap(Split(value, ","), Trim), LAMBDA l : l # <<>>)
  IN IF value = <<>> THEN Ok(<<>>)
     ELSE IF Len(labels) >= MAX_CUSTOM_LABELS
       THEN Throw("CUSTOM_LABELS cannot exceed 17 labels")
     ELSE IF \E i \in DOMAIN labels : ~Test(LabelNamePattern, labels[i])
       THEN Throw("Invalid label")
     ELSE Ok(Join(labels, <<",">>))

CUSTOM_LABELS_validate(v) ==
  LET value == Trim(v)
      labels == SelectSeq(ArrayMap(Split(value, ","), Trim), LAMBDA l : l # <<>>)
  IN IF value = <<>> THEN Ok(<<>>)
     ELSE IF Len(labels) > MAX_CUSTOM_LABELS
       THEN Throw("CUSTOM_LABELS cannot exceed 17 labels")
     ELSE IF \E i \in DOMAIN labels : ~Test(LabelNamePattern, labels[i])
       THEN Throw("Invalid label")
     ELSE Ok(Join(labels, <<",">>))

Entry(key, hasDefault, default) ==
  [key |-> Chars(key), hasDefault |-> hasDefault, default |-> Chars(default),
   required |-> FALSE]

\* The registry, in the order of Object.keys(CONFIG_SCHEMA).
CONFIG_SCHEMA == <<
  Entry("PROVIDER", TRUE, "groq"),
  Entry("GROQ_API_KEY", FALSE, ""),
  Entry("CEREBRAS_API_KEY", FALSE, ""),
  Entry("OPENAI_API_KEY", FALSE, ""),
  Entry("OPENAI_BASE_URL", FALSE, ""),
  Entry("LOCALE", TRUE, "en"),
  Entry("MAX_RETRIES", TRUE, "2"),
  Entry("TIMEOUT", TRUE, "10000"),
  Entry("DEFAULT_BRANCH", TRUE, "main"),
  Entry("MODEL", TRUE, "llama-3.3-70b"),
  Entry("FILTER_COMMITS", TRUE, "true"),
  Entry("CONTEXT", TRUE, ""),
  Entry("CUSTOM_LABELS", TRUE, "") >>

ConfigKeys == {CONFIG_SCHEMA[i].key : i \in DOMAIN CONFIG_SCHEMA}
SchemaOf(key) ==
  CONFIG_SCHEMA[CHOOSE i \in DOMAIN CONFIG_SCHEMA : CONFIG_SCHEMA[i].key = key]

\* CONFIG_SCHEMA[key].validate(v)
validate(key, v) ==
  CASE key = Chars("PROVIDER") -> PROVIDER_validate(v)
    [] key = Chars("GROQ_API_KEY") -> GROQ_API_KEY_validate(v)
    [] key = Chars("CEREBRAS_API_KEY") -> CEREBRAS_API_KEY_validate(v)
    [] key = Chars("OPENAI_API_KEY") -> OPENAI_API_KEY_validate(v)
    [] key = Chars("OPENAI_BASE_URL") -> OPENAI_BASE_URL_validate(v)
    [] key = Chars("LOCALE") -> LOCALE_validate(v)
    [] key = Chars("MAX_RETRIES") -> MAX_RETRIES_validate(v)
    [] key = Chars("TIMEOUT") -> TIMEOUT_validate(v)
    [] key = Chars("DEFAULT_BRANCH") -> DEFAULT_BRANCH_validate(v)
    [] key = Chars("MODEL") -> MODEL_validate(v)
    [] key = Chars("FILTER_COMMITS") -> FILTER_COMMITS_validate(v)
    [] key = Chars("CONTEXT") -> CONTEXT_validate(v)
    [] key = Chars("CUSTOM_LABELS") -> CUSTOM_LABELS_validate(v)

(***************************************************************************)
(* Map<string, string>: the entries <<key, value>> in insertion order      *)
(***************************************************************************)
MapHas(m, key) == \E i \in DOMAIN m : m[i][1] = key

\* Map.prototype.get: has = FALSE stands for undefined.
MapGet(m, key) ==
  IF MapHas(m, key)
    THEN [has |-> TRUE, value |-> m[CHOOSE i \in DOMAIN m : m[i][1] = key][2]]
    ELSE [has |-> FALSE, value |-> <<>>]

\* Map.prototype.set: an existing key keeps its place.
MapSet(m, key, value) ==
  IF MapHas(m, key)
    THEN [i \in DOMAIN m |-> IF m[i][1] = key THEN <<key, value>> ELSE m[i]]
    ELSE Append(m, <<key, value>>)

\* Map.prototype.delete
MapDelete(m, key) == SelectSeq(m, LAMBDA e : e[1] # key)

\* new Map(entries)
RECURSIVE NewMap(_)
NewMap(entries) ==
  IF entries = <<>> THEN <<>>
  ELSE LET e == entries[Len(entries)]
       IN MapSet(NewMap(SubSeq(entries, 1, Len(entries) - 1)), e[1], e[2])

(***************************************************************************)
(* class Config                                                            *)
(***************************************************************************)
ParseLine_SecondPartOnly(line) ==
  LET parts == Split(line, "=")
  IN <<Trim(parts[1]), IF Len(parts) > 1 THEN Trim(parts[2]) ELSE <<>>>>

\* load(): one line of the file into [key, value]
ParseLine(line) ==
  LET parts == Split(line, "=")
  IN <<Trim(parts[1]), Trim(Join(Tail(parts), <<"=">>))>>

\* load(): the Map built from the content of the file
ParseConfig(content) ==
  LET lines == ArrayMap(Split(content, "\n"), Trim)
      entryLines == SelectSeq(lines, LAMBDA line : line # <<>> /\ ~StartsWith(line, <<"#">>))
      pairs == ArrayMap(entryLines, ParseLine)
  IN NewMap(SelectSeq(pairs, LAMBDA pair : pair[1] # <<>>))

\* The cache once `await this.load()` has returned: the parsed file on the
\* first call, the cache as it is when the file is missing or was loaded.
Config_load ==
  IF loaded \/ ~file.exists THEN cache ELSE ParseConfig(file.content)

\* save(): the content written to the file
Serialize(m) == Join(ArrayMap(m, LAMBDA e : e[1] \o <<"=">> \o e[2]), <<"\n">>)

Written(m) == [exists |-> TRUE, content |-> Serialize(m)]

Config_get_SkipsValidation(c, key) ==
  LET schema == SchemaOf(key)
      raw == MapGet(c, key)
  IN IF ~raw.has \/ raw.value = <<>>
       THEN Ok(IF schema.hasDefault THEN schema.default ELSE <<>>)
       ELSE Ok(raw.value)

\* get(key), after the load: c is the loaded cache
Config_get(c, key) ==
  LET schema == SchemaOf(key)
      raw == MapGet(c, key)
  IN IF ~raw.has \/ raw.value = <<>>      \* !raw
       THEN IF schema.required
              THEN Throw("is required but not set.")
              ELSE Ok(OrElse(IF schema.hasDefault THEN schema.default ELSE <<>>, <<>>))
       ELSE validate(key, raw.value)

Config_set_StoresFirst(c, key, value) ==
  [result |-> validate(key, value), cache |-> MapSet(c, key, Trim(value))]

\* set(key, value), after the load: the outcome and the cache it leaves
Config_set(c, key, value) ==
  LET validated == validate(key, value)
  IN [result |-> validated,
      cache |-> IF validated.ok THEN MapSet(c, key, validated.value) ELSE c]

\* remove(key), after the load: the cache it leaves
Config_remove(c, key) == MapDelete(c, key)

Config_clear_KeepsLast(c) == IF c = <<>> THEN c ELSE <<c[Len(c)]>>

\* clear(): the cache it leaves
Config_clear(c) == <<>>

\* validate(): the errors collected from key number i of the registry on
RECURSIVE ValidateFrom(_, _)
ValidateFrom(c, i) ==
  IF i > Len(CONFIG_SCHEMA) THEN <<>>
  ELSE LET key == CONFIG_SCHEMA[i].key
           got == Config_get(c, key)
       IN (IF got.ok THEN <<>> ELSE <<key \o Chars(": ") \o Chars(got.error)>>)
            \o ValidateFrom(c, i + 1)

RECURSIVE ValidateUntilError(_, _)
ValidateUntilError(c, i) ==
  IF i > Len(CONFIG_SCHEMA) THEN <<>>
  ELSE LET key == CONFIG_SCHEMA[i].key
           got == Config_get(c, key)
       IN IF got.ok THEN ValidateUntilError(c, i + 1)
          ELSE <<key \o Chars(": ") \o Chars(got.error)>>

Config_validate_StopsAtFirst(c) ==
  LET errors == ValidateUntilError(c, 1)
  IN [valid |-> errors = <<>>, errors |-> errors]

\* validate(), after the load
Config_validate(c) ==
  LET errors == ValidateFrom(c, 1)
  IN [valid |-> errors = <<>>, errors |-> errors]

(***************************************************************************)
(* Configuration runs: the inputs                                          *)
(***************************************************************************)
MaxOps == 2

Files == {
  NoFile,
  [exists |-> TRUE, content |-> <<>>],
  [exists |-> TRUE, content |-> Chars("LOCALE=ES\nMAX_RETRIES=5")],
  [exists |-> TRUE, content |->
     Chars("# This is a comment\nGROQ_API_KEY=gsk_1234567890abcdefghij\n  # Another comment\n\nLOCALE=es\n")],
  [exists |-> TRUE, content |-> Chars("DEFAULT_BRANCH=feature/test=branch")],
  [exists |-> TRUE, content |-> Chars("LOCALE=es\nTIMEOUT=1\nLOCALE=fr")],
  [exists |-> TRUE, content |-> Chars("MODEL=\nFILTER_COMMITS=")],
  [exists |-> TRUE, content |-> Chars("  LOCALE  =  fr  \r\nJUNK\n=orphan\nFOO=bar")],
  [exists |-> TRUE, content |->
     Chars("FILTER_COMMITS=maybe\nLOCALE=xx\nCONTEXT=a=b # c\nGROQ_API_KEY=invalid_key_format")] }

RawValues(key) ==
  CASE key = Chars("PROVIDER") -> {Chars(" OpenAI "), Chars("azure")}
    [] key = Chars("GROQ_API_KEY") -> {Chars("gsk_1234567890abcdefghij"), Chars("invalid"), <<>>}
    [] key = Chars("CEREBRAS_API_KEY") -> {Chars(" csk-0987654321jihgfedcba "), Chars("csk 0987654321jihgfedcba")}
    [] key = Chars("OPENAI_API_KEY") -> {Chars("sk local"), Chars("  ")}
    [] key = Chars("OPENAI_BASE_URL") -> {Chars("http://localhost:11434/v1"), Chars("not-a-url")}
    [] key = Chars("LOCALE") -> {Chars("ES"), Chars("xx")}
    [] key = Chars("MAX_RETRIES") ->
         {Chars("5"), Chars(" 007"), Chars("-1"), Chars("abc"),
          Chars("100000000000000000000"), Chars("1000000000000000000000")}
    [] key = Chars("TIMEOUT") -> {Chars("30000"), Chars("-5")}
    [] key = Chars("DEFAULT_BRANCH") -> {Chars(" Develop "), Chars("feature/test=branch")}
    [] key = Chars("MODEL") -> {Chars("gpt-4o"), Chars(" ")}
    [] key = Chars("FILTER_COMMITS") -> {Chars("FALSE"), Chars("yes")}
    [] key = Chars("CONTEXT") -> 
         {Chars(" fix the login flow "), Chars("first\n\n# second"),
          Chars("x\nLOCALE=fr")}
    [] key = Chars("CUSTOM_LABELS") -> {Chars("feature,,refactor,"), Chars("a, 1bad")}

FilterIdle ==
  /\ commits = <<>>
  /\ kept = <<>>
  /\ rekept = <<>>
  /\ probe = NoProbe
  /\ fpc = "start"

Init ==
  /\ file \in Files
  /\ cache = <<>>
  /\ loaded = FALSE
  /\ last = NoCall
  /\ ops = 0
  /\ FilterIdle
  /\ LaterIdle

Call(op, key, arg, result) ==
  [op |-> op, key |-> key, arg |-> arg, result |-> result, errors |-> <<>>]

\* config.get(key)
Get(key) ==
  /\ ops < MaxOps
  /\ cache' = Config_load
  /\ loaded' = TRUE
  /\ last' = Call("get", key, <<>>, Config_get(cache', key))
  /\ ops' = ops + 1
  /\ UNCHANGED <<file, filterVars, laterVars>>

\* config.set(key, value)
Set(key, value) ==
  /\ ops < MaxOps
  /\ LET done == Config_set(Config_load, key, value)
     IN /\ cache' = done.cache
        /\ file' = IF done.result.ok THEN Written(done.cache) ELSE file
        /\ last' = Call("set", key, value, done.result)
  /\ loaded' = TRUE
  /\ ops' = ops + 1
  /\ UNCHANGED <<filterVars, laterVars>>

\* config.remove(key)
Remove(key) ==
  /\ ops < MaxOps
  /\ cache' = Config_remove(Config_load, key)
  /\ loaded' = TRUE
  /\ file' = Written(cache')
  /\ last' = Call("remove", key, <<>>, Ok(<<>>))
  /\ ops' = ops + 1
  /\ UNCHANGED <<filterVars, laterVars>>

\* config.clear(): no load
Clear ==
  /\ ops < MaxOps
  /\ cache' = Config_clear(cache)
  /\ file' = Written(cache')
  /\ last' = Call("clear", <<>>, <<>>, Ok(<<>>))
  /\ ops' = ops + 1
  /\ UNCHANGED <<loaded, filterVars, laterVars>>

\* config.validate(): result.ok holds `valid`
Validate ==
  /\ ops < MaxOps
  /\ cache' = Config_load
  /\ loaded' = TRUE
  /\ LET report == Config_validate(cache')
     IN last' = [op |-> "validate", key |-> <<>>, arg |-> <<>>,
                 result |-> [ok |-> report.valid, value |-> <<>>, error |-> ""],
                 errors |-> report.errors]
  /\ ops' = ops + 1
  /\ UNCHANGED <<file, filterVars, laterVars>>

Next ==
  \/ \E key \in ConfigKeys : Get(key)
  \/ \E key \in ConfigKeys : \E value \in RawValues(key) : Set(key, value)
  \/ \E key \in ConfigKeys : Remove(key)
  \/ Clear
  \/ Validate

Spec == Init /\ [][Next]_vars

(***************************************************************************)
(* Configuration properties                                                *)
(***************************************************************************)
K_LOCALE == Chars("LOCALE")
K_MODEL == Chars("MODEL")
K_DEFAULT_BRANCH == Chars("DEFAULT_BRANCH")

SetDone == last.op = "set" /\ last.result.ok
SetFailed == last.op = "set" /\ ~last.result.ok

\* C1: after a set(K, V) that the validator accepts, get(K) in the same
\* process returns validate(V).
C1_SetThenGetIsValidated ==
  SetDone => Config_get(cache, last.key) = validate(last.key, last.arg)

\* The round trip does hold for every accepted value whose normalized form
\* the validator maps to itself.
C1_RoundTripOfStableValues ==
  SetDone /\ validate(last.key, last.result.value) = last.result =>
    Config_get(cache, last.key) = validate(last.key, last.arg)

\* C2: a set(K, V) that the validator rejects throws and changes nothing: the
\* file is the same, the map holds what the (lazy) load of the call gives and
\* nothing else, and get(K) returns what it returned before.
C2_RejectedSetChangesNothing ==
  [][(last'.op = "set" /\ ~last'.result.ok /\ ops' = ops + 1) =>
       /\ last'.result.error # ""
       /\ file' = file
       /\ loaded => cache' = cache
       /\ ~loaded => cache' = Config_load
       /\ Config_get(cache', last'.key) = Config_get(Config_load, last'.key)]_vars

C2_Witness ==
  /\ SetFailed
  /\ last.key = K_LOCALE
  /\ last.arg = Chars("xx")
  /\ MapGet(cache, K_LOCALE) = [has |-> TRUE, value |-> Chars("fr")]
  /\ Config_get(cache, K_LOCALE) = Ok(Chars("fr"))

DefaultValidated(key) ==
  IF SchemaOf(key).hasDefault THEN validate(key, SchemaOf(key).default) ELSE Ok(<<>>)

MissingRequiredOnlyWhenRequired ==
  last.op = "get" /\ last.result.error = "is required but not set." =>
    SchemaOf(last.key).required /\ ~SchemaOf(last.key).hasDefault

FileLines(content) == IF content = <<>> THEN <<>> ELSE Split(content, "\n")

IsIgnoredLine(line) ==
  TrimStart(line) = <<>> \/ Head(TrimStart(line)) = "#"

\* Key and value of a line, cut at its first "=".
KeyOfLine(line) ==
  LET text == Trim(line)
      i == IndexOf(text, "=")
  IN IF i = 0 THEN text ELSE Trim(SubSeq(text, 1, i - 1))

ValueOfLine(line) ==
  LET text == Trim(line)
      i == IndexOf(text, "=")
  IN IF i = 0 THEN <<>> ELSE Trim(SubSeq(text, i + 1, Len(text)))

\* The lines of a file that define key: not ignored, and with that key.
LinesOf(content, key) ==
  {i \in DOMAIN FileLines(content) :
     /\ ~IsIgnoredLine(FileLines(content)[i])
     /\ KeyOfLine(FileLines(content)[i]) = key}

JustLoaded == ops = 1 /\ last.op = "get" /\ file.exists

UniqueKeys == \A i, j \in DOMAIN cache : cache[i][1] = cache[j][1] => i = j

LastWriteWins ==
  /\ SetDone => MapGet(cache, last.key) = [has |-> TRUE, value |-> last.result.value]
  /\ last.op = "remove" => ~MapHas(cache, last.key)
  /\ last.op = "clear" => cache = <<>>
  /\ JustLoaded =>
       \A e \in Range(cache) :
         LET ls == LinesOf(file.content, e[1])
         IN /\ ls # {}
            /\ e[2] = ValueOfLine(FileLines(file.content)[CHOOSE i \in ls : \A j \in ls : j <= i])

Saved == SetDone \/ last.op \in {"remove", "clear"}

OneLinePerEntry ==
  LET lines == FileLines(file.content)
  IN /\ file.exists
     /\ Len(lines) = Len(cache)
     /\ \A i \in DOMAIN lines :
          /\ lines[i] = cache[i][1] \o <<"=">> \o cache[i][2]
          /\ ~IsIgnoredLine(lines[i])

\* C9: the map holds at most one entry per key, which is the value written
\* last (the last line of a loaded file), and every file written by save is
\* one KEY=VALUE line per entry, without blank or comment lines.
C9_StoreInvariant ==
  /\ UniqueKeys
  /\ LastWriteWins
  /\ Saved => OneLinePerEntry

\* What does hold: the map part always, the file part as long as no stored
\* value contains a line break.
C9_StoreInvariantWithoutLineBreaks ==
  /\ UniqueKeys
  /\ LastWriteWins
  /\ (Saved /\ \A e \in Range(cache) : "\n" \notin Range(e[2])) => OneLinePerEntry

\* C10: load ignores blank lines and lines starting with "#" and cuts every
\* other line at its first "=": trimmed key before, trimmed value after, so a
\* value holding "=" is loaded whole.
C10_LoadSplitsAtFirstEquals ==
  JustLoaded =>
    /\ \A e \in Range(cache) : LinesOf(file.content, e[1]) # {}
    /\ \A i \in DOMAIN FileLines(file.content) :
         LET line == FileLines(file.content)[i]
         IN (~IsIgnoredLine(line) /\ KeyOfLine(line) # <<>>
               /\ i = CHOOSE k \in LinesOf(file.content, KeyOfLine(line)) :
                        \A j \in LinesOf(file.content, KeyOfLine(line)) : j <= k)
            => MapGet(cache, KeyOfLine(line)) = [has |-> TRUE, value |-> ValueOfLine(line)]
    /\ Len(cache) = Cardinality({KeyOfLine(FileLines(file.content)[i]) :
                                   i \in {j \in DOMAIN FileLines(file.content) :
                                            ~IsIgnoredLine(FileLines(file.content)[j])}}
                                 \ {<<>>})

C10_Witness ==
  /\ JustLoaded
  /\ file.content = Chars("DEFAULT_BRANCH=feature/test=branch")
  /\ last.key = K_DEFAULT_BRANCH
  /\ last.result = Ok(Chars("feature/test=branch"))
  /\ cache = <<<<K_DEFAULT_BRANCH, Chars("feature/test=branch")>>>>

\* What the file says about key: the value of its last line for key, if any.
FileEntry(f, key) ==
  LET ls == LinesOf(f.content, key)
  IN IF ~f.exists \/ ls = {} THEN [has |-> FALSE, value |-> <<>>]
     ELSE [has |-> TRUE,
           value |-> ValueOfLine(FileLines(f.content)[CHOOSE i \in ls : \A j \in ls : j <= i])]

DefaultOf(key) == SchemaOf(key).default

RemoveDone == last'.op = "remove" /\ ops' = ops + 1

\* C12: remove(K) deletes only K: afterwards get(K) returns K's default, the
\* file has no line for K, and every other key has the entry and the line it
\* had before the call.
C12_RemoveDeletesOnlyK ==
  [][RemoveDone =>
       /\ Config_get(cache', last'.key) = Ok(DefaultOf(last'.key))
       /\ LinesOf(file'.content, last'.key) = {}
       /\ \A other \in ConfigKeys \ {last'.key} :
            /\ MapGet(cache', other) = MapGet(Config_load, other)
            /\ file.exists => FileEntry(file', other) = FileEntry(file, other)]_vars

\* What does hold: the same, as long as no stored value contains a line
\* break.
C12_RemoveWithoutLineBreaks ==
  [][(RemoveDone /\ \A e \in Range(Config_load) : "\n" \notin Range(e[2])) =>
       /\ Config_get(cache', last'.key) = Ok(DefaultOf(last'.key))
       /\ LinesOf(file'.content, last'.key) = {}
       /\ \A other \in ConfigKeys \ {last'.key} :
            /\ MapGet(cache', other) = MapGet(Config_load, other)
            /\ file.exists => FileEntry(file', other) = FileEntry(file, other)]_vars

\* C13: after clear(), whatever calls came before, the file is the empty
\* string and get of every registered key returns the key's default (the
\* empty string for a key without one).
C13_ClearEmptiesFileAndMap ==
  last.op = "clear" =>
    /\ file = [exists |-> TRUE, content |-> <<>>]
    /\ \A key \in ConfigKeys : Config_get(Config_load, key) = Ok(DefaultOf(key))

C13_Witness ==
  /\ last.op = "clear"
  /\ ops = 2
  /\ loaded
  /\ file.content = <<>>
  /\ Config_get(Config_load, K_LOCALE) = Ok(Chars("en"))

\* The registered keys whose get fails, in registry order.
FailingKeys ==
  SelectSeq([i \in DOMAIN CONFIG_SCHEMA |-> CONFIG_SCHEMA[i].key],
            LAMBDA key : ~Config_get(cache, key).ok)

\* C14: validate() tries get for every registered key: its errors are one
\* entry for each key whose get fails, in registry order, each starting with
\* the key's name, and valid is TRUE exactly when there is none.
C14_ValidateCollectsEveryFailure ==
  last.op = "validate" =>
    /\ Len(last.errors) = Len(FailingKeys)
    /\ \A i \in DOMAIN last.errors :
         StartsWith(last.errors[i], FailingKeys[i] \o Chars(": "))
    /\ last.result.ok = (last.errors = <<>>)

C14_Witness ==
  /\ last.op = "validate"
  /\ ~last.result.ok
  /\ Len(last.errors) = 3
  /\ last.errors[1] = Chars("GROQ_API_KEY: Invalid GROQ_API_KEY format")
  /\ StartsWith(last.errors[2], Chars("LOCALE: "))
  /\ StartsWith(last.errors[3], Chars("FILTER_COMMITS: "))

(***************************************************************************)
(* Overlapping calls on the one Config instance                            *)
(*                                                                         *)
(* get, set and remove are async: each runs up to an await, and the calls  *)
(* of other callers run in between.  A call goes from "idle" to "load"     *)
(* (awaiting the promise of load), to "ready" (the load has resolved), to  *)
(* "save" (awaiting writeFile) and to "done", or to "failed".              *)
(***************************************************************************)
MaxReadFailures == 1
MaxForeignWrites == 1

Load_entry_IgnoresPromise(isLoaded, promise) ==
  IF isLoaded THEN "return" ELSE "read"

\* load(), up to its first await: return at once, share the read in flight,
\* or start the read
Load_entry(isLoaded, promise) ==
  IF isLoaded THEN "return"
  ELSE IF promise = "pending" THEN "share"
  ELSE "read"

\* What a process that has just read f holds in its cache.
FreshLoad(f) == IF f.exists THEN ParseConfig(f.content) ELSE <<>>

AsyncFiles == {
  NoFile,
  [exists |-> TRUE, content |-> Chars("LOCALE=es")] }

ForeignFiles == {
  [exists |-> TRUE, content |-> Chars("LOCALE=fr")],
  [exists |-> TRUE, content |-> <<>>] }

AsyncCalls == {
  [op |-> "get", key |-> Chars("LOCALE"), value |-> <<>>],
  [op |-> "set", key |-> Chars("LOCALE"), value |-> Chars(" IT ")],
  [op |-> "set", key |-> Chars("LOCALE"), value |-> Chars("xx")],
  [op |-> "set", key |-> Chars("TIMEOUT"), value |-> Chars("30000")],
  [op |-> "remove", key |-> Chars("LOCALE"), value |-> <<>>] }

AsyncInit ==
  /\ file \in AsyncFiles
  /\ cache = <<>>
  /\ loaded = FALSE
  /\ last = NoCall
  /\ ops = 0
  /\ AsyncIdle
  /\ FilterIdle
  /\ CliIdle
  /\ ValidatorIdle
  /\ ShellIdle

AsyncFrame == UNCHANGED <<filterVars, last, ops, cliVars, validatorVars, shellVars>>

\* config.get / set / remove is called: it runs into `await this.load()`
CallStarts(p, c) ==
  /\ calls[p].pc = "idle"
  /\ \A q \in Callers : q < p => calls[q].pc # "idle"
  /\ LET entry == Load_entry(loaded, loadPromise)
     IN /\ calls' = [calls EXCEPT ![p] =
                       [NotCalled EXCEPT !.pc = IF entry = "return" THEN "ready" ELSE "load",
                                         !.op = c.op, !.key = c.key, !.value = c.value,
                                         !.via = entry]]
        /\ loadPromise' = IF entry = "read" THEN "pending" ELSE loadPromise
        /\ io' = IF entry = "read" THEN [io EXCEPT !.reads = @ + 1] ELSE io
  /\ UNCHANGED <<file, cache, loaded>>
  /\ AsyncFrame

\* load(): readFile resolves, or rejects with ENOENT
ReadDone ==
  /\ loadPromise = "pending"
  /\ cache' = IF file.exists THEN ParseConfig(file.content) ELSE cache
  /\ loaded' = TRUE
  /\ loadPromise' = "null"
  /\ calls' = [p \in Callers |->
                IF calls[p].pc = "load" THEN [calls[p] EXCEPT !.pc = "ready"] ELSE calls[p]]
  /\ io' = [io EXCEPT !.snapshot = file]
  /\ UNCHANGED file
  /\ AsyncFrame

\* load(): readFile rejects with another error, which load rethrows
ReadFails ==
  /\ loadPromise = "pending"
  /\ io.failures < MaxReadFailures
  /\ loadPromise' = "null"
  /\ calls' = [p \in Callers |->
                IF calls[p].pc = "load"
                  THEN [calls[p] EXCEPT !.pc = "failed", !.result = Throw("EACCES")]
                  ELSE calls[p]]
  /\ io' = [io EXCEPT !.failures = @ + 1]
  /\ UNCHANGED <<file, cache, loaded>>
  /\ AsyncFrame

\* get / set / remove after `await this.load()`, up to `await this.save()`
CallContinues(p) ==
  /\ calls[p].pc = "ready"
  /\ LET c == calls[p]
         done == Config_set(cache, c.key, c.value)
     IN CASE c.op = "get" ->
               /\ calls' = [calls EXCEPT ![p] =
                              [c EXCEPT !.pc = "done", !.result = Config_get(cache, c.key),
                                        !.at = io.foreign]]
               /\ cache' = cache
          [] c.op = "set" ->
               /\ calls' = [calls EXCEPT ![p] =
                              IF done.result.ok
                                THEN [c EXCEPT !.pc = "save", !.content = Serialize(done.cache),
                                               !.at = io.foreign]
                                ELSE [c EXCEPT !.pc = "failed", !.result = done.result,
                                               !.at = io.foreign]]
               /\ cache' = done.cache
          [] c.op = "remove" ->
               /\ calls' = [calls EXCEPT ![p] =
                              [c EXCEPT !.pc = "save",
                                        !.content = Serialize(Config_remove(cache, c.key)),
                                        !.at = io.foreign]]
               /\ cache' = Config_remove(cache, c.key)
  /\ UNCHANGED <<file, loaded, loadPromise, io>>
  /\ AsyncFrame

\* save(): writeFile resolves
WriteDone(p) ==
  /\ calls[p].pc = "save"
  /\ file' = [exists |-> TRUE, content |-> calls[p].content]
  /\ calls' = [calls EXCEPT ![p] = [@ EXCEPT !.pc = "done"]]
  /\ UNCHANGED <<cache, loaded, loadPromise, io>>
  /\ AsyncFrame

\* Somebody else rewrites the file.
ForeignWrite(f) ==
  /\ io.foreign < MaxForeignWrites
  /\ f # file
  /\ file' = f
  /\ io' = [io EXCEPT !.foreign = @ + 1]
  /\ UNCHANGED <<cache, loaded, loadPromise, calls>>
  /\ AsyncFrame

AsyncNext ==
  \/ \E p \in Callers : \E c \in AsyncCalls : CallStarts(p, c)
  \/ ReadDone
  \/ ReadFails
  \/ \E p \in Callers : CallContinues(p)
  \/ \E p \in Callers : WriteDone(p)
  \/ \E f \in ForeignFiles : ForeignWrite(f)

SpecAsync == AsyncInit /\ [][AsyncNext]_vars

\* No set or remove of this process has changed the map yet.
Unmutated ==
  \A p \in Callers :
    calls[p].op \in {"set", "remove"} => calls[p].pc \in {"idle", "load", "ready", "failed"}

ReadsInFlight == IF loadPromise = "pending" THEN 1 ELSE 0
ReadsCompleted == IF loaded THEN 1 ELSE 0

\* C11: the file is read at most once that succeeds and never again once
\* loaded: every readFile call either failed, is the one in flight, or is the
\* one that loaded the map; calls that start during a read wait for that
\* read; and once loaded the map is what was read then, and get answers from
\* it, whatever others have written to the file since.
C11_LoadOnceThenCached ==
  /\ io.reads = io.failures + ReadsCompleted + ReadsInFlight
  /\ ~(loaded /\ loadPromise = "pending")
  /\ \A p \in Callers :
       /\ calls[p].pc = "load" => loadPromise = "pending"
       /\ calls[p].pc \in {"ready", "save", "done"} => loaded
       /\ calls[p].via = "read" => ~\E q \in Callers : q # p /\ calls[q].via = "read"
                                                      /\ io.failures = 0
  /\ (loaded /\ Unmutated) =>
       /\ cache = FreshLoad(io.snapshot)
       /\ \A p \in Callers :
            (calls[p].op = "get" /\ calls[p].pc = "done") =>
              calls[p].result = Config_get(FreshLoad(io.snapshot), calls[p].key)

C11_Witness ==
  /\ calls[1].via = "read" /\ calls[2].via = "share"
  /\ io.reads = 1
  /\ \A p \in Callers :
       /\ calls[p].pc = "done"
       /\ calls[p].op = "get" /\ calls[p].key = K_LOCALE
       /\ calls[p].result = Ok(Chars("es"))
       /\ calls[p].at = 1
  /\ io.snapshot.content = Chars("LOCALE=es")
  /\ file.content = Chars("LOCALE=fr")

(***************************************************************************)
(* The command line (index.ts)                                             *)
(*                                                                         *)
(* Every run is a process of its own: it starts with an empty Config and   *)
(* ends with an exit status.  What a run leaves behind is the file.        *)
(***************************************************************************)
\* The status of process.exit in exitWithError, and of the process.exit calls
\* of the config command.
exitWithError_status == 0
configError_status == 1

\* `key in CONFIG_SCHEMA`: the in operator also finds what an object literal
\* inherits from Object.prototype.
ObjectPrototypeKeys ==
  {Chars("constructor"), Chars("toString"), Chars("valueOf"),
   Chars("hasOwnProperty"), Chars("__proto__")}

InSchema(key) == key \in ConfigKeys \cup ObjectPrototypeKeys

\* How a run ends.
End(outcome, message, about, called, status) ==
  [outcome |-> outcome, message |-> message, about |-> about, called |-> called,
   exit |-> status, shown |-> <<>>, commits |-> <<>>, target |-> <<>>]

Shows(end, shown) == [end EXCEPT !.shown = shown]

\* What config.get(key) returns or throws for each key of the schema, with
\* the cache c.
Config_getEach(c) == [key \in ConfigKeys |-> Config_get(c, key)]

\* config.get(key) for what passes `key in CONFIG_SCHEMA`: an inherited
\* property has no required, default or validate.  get is Config_getEach(c).
Cli_get(c, get, key) ==
  IF key \in ConfigKeys THEN get[key]
  ELSE IF ~MapGet(c, key).has \/ MapGet(c, key).value = <<>> THEN Ok(<<>>)
  ELSE Throw("schema.validate is not a function")

\* config.set(key, value) for what passes `key in CONFIG_SCHEMA`
Cli_set(c, key, value) ==
  IF key \in ConfigKeys THEN Config_set(c, key, value)
  ELSE [result |-> Throw("schema.validate is not a function"), cache |-> c]

\* "*".repeat(length - 4) + slice(-4), or "****"
Masked(value) ==
  IF Len(value) > 4
    THEN [i \in 1 .. Len(value) |-> IF i <= Len(value) - 4 THEN "*" ELSE value[i]]
    ELSE Chars("****")

EndsWith(str, suffix) ==
  Len(str) >= Len(suffix) /\ SubSeq(str, Len(str) - Len(suffix) + 1, Len(str)) = suffix

\* config list: the line shown for key, from what getAll returned for it
ListLine(get, key) ==
  LET got == get[key]                  \* getAll skips a get that throws
      schema == SchemaOf(key)
  IN IF got.ok /\ got.value # <<>>
       THEN [key |-> key, status |-> "value",
             value |-> IF EndsWith(key, Chars("_API_KEY")) THEN Masked(got.value)
                       ELSE got.value]
     ELSE IF schema.hasDefault
       THEN [key |-> key, status |-> "default", value |-> schema.default]
     ELSE IF schema.required
       THEN [key |-> key, status |-> "required", value |-> <<>>]
     ELSE [key |-> key, status |-> "not set", value |-> <<>>]

\* lazypr config <type> [keyValue], on the file f: how the run ends and the
\* file it leaves
ConfigCommand(f, type, keyValue) ==
  LET c == FreshLoad(f)
      equalIndex == IndexOf(keyValue, "=")
      setKey == Trim(SubSeq(keyValue, 1, equalIndex - 1))
      setValue == SubSeq(keyValue, equalIndex + 1, Len(keyValue))
      key == Trim(keyValue)
      set == Cli_set(c, setKey, setValue)
      get == Config_getEach(c)
      got == Cli_get(c, get, key)
      unchanged(end, k) == [end |-> end, key |-> k, file |-> f]
  IN CASE type = Chars("list") ->
            unchanged(Shows(End("success", "", <<>>, <<"config.getAll">>, 0),
                            [i \in DOMAIN CONFIG_SCHEMA |-> ListLine(get, CONFIG_SCHEMA[i].key)]),
                      <<>>)
       [] type = Chars("set") ->
            IF equalIndex = 0
              THEN unchanged(End("usage", "key-value pair must be in format KEY=VALUE",
                                 <<>>, <<>>, configError_status), <<>>)
            ELSE IF setKey = <<>>
              THEN unchanged(End("usage", "Key cannot be empty", <<>>, <<>>,
                                 configError_status), <<>>)
            ELSE IF ~InSchema(setKey)
              THEN unchanged(End("unknown key", "Unknown config key", setKey, <<>>,
                                 configError_status), setKey)
            ELSE IF ~set.result.ok
              THEN unchanged(End(IF setKey \in ConfigKeys THEN "validation" ELSE "crash",
                                 set.result.error, setKey, <<"config.set">>,
                                 configError_status), setKey)
            ELSE [end |-> End("success", "", setKey, <<"config.set">>, 0),
                  key |-> setKey, file |-> Written(set.cache)]
       [] type = Chars("get") ->
            IF key = <<>>
              THEN unchanged(End("usage", "Key cannot be empty", <<>>, <<>>,
                                 configError_status), <<>>)
            ELSE IF ~InSchema(key)
              THEN unchanged(End("unknown key", "Unknown config key", key, <<>>,
                                 configError_status), key)
            ELSE IF got.ok         \* .catch(() => undefined)
              THEN unchanged(Shows(End("success", "", key, <<"config.get">>, 0),
                                   <<[key |-> key, status |-> "value", value |-> got.value]>>),
                             key)
            ELSE unchanged(End("not found", "not found in config", key,
                               <<"config.get">>, 0), key)
       [] type = Chars("remove") ->
            IF key = <<>>
              THEN unchanged(End("usage", "Key cannot be empty", <<>>, <<>>,
                                 configError_status), <<>>)
            ELSE IF ~InSchema(key)
              THEN unchanged(End("unknown key", "Unknown config key", key, <<>>,
                                 configError_status), key)
            ELSE [end |-> End("success", "", key, <<"config.remove">>, 0),
                  key |-> key, file |-> Written(Config_remove(c, key))]
       [] OTHER ->
            unchanged(End("usage", "Invalid operation", <<>>, <<>>, configError_status),
                      <<>>)

K_FILTER_COMMITS == Chars("FILTER_COMMITS")
K_PROVIDER == Chars("PROVIDER")
K_CONTEXT == Chars("CONTEXT")

\* getPullRequestCommits that consults FILTER_COMMITS whatever noFilter says.
getPullRequestCommits_IgnoresNoFilter(get, git, noFilter) ==
  LET parsed == CommitList(git.log)
      shouldFilter == get[Chars("FILTER_COMMITS")]
  IN IF ~git.ok THEN <<>>
     ELSE IF git.log = <<>> THEN <<>>
     ELSE IF ~shouldFilter.ok THEN <<>>
     ELSE IF shouldFilter.value = Chars("true") THEN filterCommits(parsed)
     ELSE parsed

\* getPullRequestCommits(targetBranch, noFilter), where get[key] is what
\* config.get(key) returns or throws: git log either fails or prints one line
\* per commit.  The function always resolves: its catch turns every error
\* into the empty list.
getPullRequestCommits(get, git, noFilter) ==
  LET parsed == CommitList(git.log)
      shouldFilter == get[K_FILTER_COMMITS]
  IN IF ~git.ok THEN <<>>
     ELSE IF git.log = <<>> THEN <<>>
     ELSE IF noFilter THEN parsed
     ELSE IF ~shouldFilter.ok THEN <<>>
     ELSE IF shouldFilter.value = Chars("true") THEN filterCommits(parsed)
     ELSE parsed

\* The provider registry (utils/provider.ts)
ProviderKey(name) ==
  CASE name = Chars("groq") -> Chars("GROQ_API_KEY")
    [] name = Chars("cerebras") -> Chars("CEREBRAS_API_KEY")
    [] name = Chars("openai") -> Chars("OPENAI_API_KEY")

ApiKeyOptional(name) == name = Chars("openai")

\* The first key of keys whose get throws; <<>> when none does.
FirstFailure(get, keys) ==
  LET bad == {i \in DOMAIN keys : ~get[keys[i]].ok}
  IN IF bad = {} THEN <<>> ELSE keys[CHOOSE i \in bad : \A j \in bad : i <= j]

\* validateProviderApiKey that treats every provider's key as optional.
validateProviderApiKey_KeyOptional(get) ==
  LET provider == get[Chars("PROVIDER")]
      apiKey == get[ProviderKey(provider.value)]
  IN IF ~provider.ok THEN [ok |-> FALSE, kind |-> "validation", about |-> Chars("PROVIDER"),
                           error |-> provider.error]
     ELSE IF ~apiKey.ok THEN [ok |-> FALSE, kind |-> "validation",
                              about |-> ProviderKey(provider.value), error |-> apiKey.error]
     ELSE [ok |-> TRUE, kind |-> "", about |-> <<>>, error |-> ""]

\* validateProviderApiKey()
validateProviderApiKey(get) ==
  LET provider == get[K_PROVIDER]
      apiKey == get[ProviderKey(provider.value)]
  IN IF ~provider.ok THEN [ok |-> FALSE, kind |-> "validation", about |-> K_PROVIDER,
                           error |-> provider.error]
     ELSE IF ~apiKey.ok THEN [ok |-> FALSE, kind |-> "validation",
                              about |-> ProviderKey(provider.value), error |-> apiKey.error]
     ELSE IF ApiKeyOptional(provider.value)
       THEN [ok |-> TRUE, kind |-> "", about |-> <<>>, error |-> ""]
     ELSE IF apiKey.value = <<>>
       THEN [ok |-> FALSE, kind |-> "operational", about |-> ProviderKey(provider.value),
             error |-> "API key is required"]
     ELSE [ok |-> TRUE, kind |-> "", about |-> <<>>, error |-> ""]

\* The keys generatePullRequest reads before it calls the provider.
GenerationKeys(get, env) ==
  <<K_PROVIDER, ProviderKey(get[K_PROVIDER].value)>>
    \o (IF env.locale = <<>> THEN <<K_LOCALE>> ELSE <<>>)
    \o (IF Trim(env.context) = <<>> THEN <<K_CONTEXT>> ELSE <<>>)
    \o <<K_MODEL, Chars("CUSTOM_LABELS")>>
    \o (IF get[K_PROVIDER].value = Chars("openai")
          THEN <<Chars("OPENAI_BASE_URL")>> ELSE <<>>)
    \o <<Chars("MAX_RETRIES"), Chars("TIMEOUT")>>

\* The keys createPullRequest reads for the badge.
BadgeKeys(env) ==
  (IF env.locale = <<>> THEN <<K_LOCALE>> ELSE <<>>)
    \o (IF Trim(env.context) = <<>> THEN <<K_CONTEXT>> ELSE <<>>)
    \o (IF env.noFilter THEN <<>> ELSE <<K_FILTER_COMMITS>>)
    \o <<K_PROVIDER, K_MODEL>>

\* The branch selection shown only when the target branch does not exist.
mustSelectBranch_OnlyWhenMissing(currentBranch, targetBranch, branches) ==
  targetBranch \notin Range(branches)

\* createPullRequest: the condition of the branch selection
mustSelectBranch(currentBranch, targetBranch, branches) ==
  currentBranch = targetBranch \/ targetBranch \notin Range(branches)

\* createPullRequest(target, options) on the file f, in the environment env:
\* the git repository, the user's choices and the provider's answer.  Every
\* error ends in exitWithError, the ones thrown on the way through the catch
\* of the function.
createPullRequest(f, env) ==
  LET get == Config_getEach(FreshLoad(f))
      s1 == IF env.target = <<>> THEN <<"config.get">> ELSE <<>>
      target0 == IF env.target = <<>> THEN get[K_DEFAULT_BRANCH].value
                 ELSE env.target
      locale == LOCALE_validate(env.locale)
      context == CONTEXT_validate(env.context)
      s2 == s1 \o <<"isGitRepository", "validateProviderApiKey">>
      apiKey == validateProviderApiKey(get)
      s3 == s2 \o <<"getCurrentBranch">>
      s4 == s3 \o <<"getAllBranches">>
      mustSelect == mustSelectBranch(env.current, target0, env.branches)
      available == SelectSeq(env.branches, LAMBDA branch : branch # env.current)
      s5 == IF mustSelect THEN s4 \o <<"select">> ELSE s4
      target == IF mustSelect /\ env.pick \in DOMAIN available
                  THEN available[env.pick] ELSE target0
      s6 == s5 \o <<"getPullRequestCommits">>
      prCommits == getPullRequestCommits(get, env.git, env.noFilter)
      filterSetting == get[K_FILTER_COMMITS]
      badge == FirstFailure(get, BadgeKeys(env))
      s7 == s6 \o <<"generatePullRequest">>
      generation == FirstFailure(get, GenerationKeys(get, env))
      provider == get[K_PROVIDER].value
      s8 == s7 \o <<"generateObject">>
      fail(kind, message, about, called) ==
        End(kind, message, about, called, exitWithError_status)
      reached(end) ==
        [end EXCEPT !.target = IF "getPullRequestCommits" \in Range(end.called)
                                 THEN target ELSE <<>>]
  IN reached(
     IF env.locale # <<>> /\ ~locale.ok
       THEN fail("validation", "Invalid locale", K_LOCALE, s1)
     ELSE IF env.context # <<>> /\ ~context.ok
       THEN fail("validation", "Invalid context", K_CONTEXT, s1)
     ELSE IF ~apiKey.ok
       THEN fail(apiKey.kind, apiKey.error, apiKey.about, s2)
     ELSE IF env.current = <<>>
       THEN fail("operational", "No current branch found", <<>>, s3)
     ELSE IF mustSelect /\ available = <<>>
       THEN fail("operational", "No other branches available to merge into", <<>>, s4)
     ELSE IF mustSelect /\ env.pick \notin DOMAIN available
       THEN fail("cancel", "Branch selection cancelled", <<>>, s5)
     ELSE IF prCommits = <<>>
       THEN IF ~env.noFilter /\ ~filterSetting.ok
              THEN fail("validation", filterSetting.error, K_FILTER_COMMITS, s6)
            ELSE IF ~env.noFilter /\ filterSetting.value = Chars("true")
              THEN fail("operational", "No commits found after filtering", <<>>,
                        s6 \o <<"getPullRequestCommits">>)
            ELSE fail("operational", "No commits found for pull request", <<>>, s6)
     ELSE IF badge # <<>>
       THEN fail("validation", get[badge].error, badge, s6)
     ELSE IF generation \in {K_PROVIDER, ProviderKey(provider)}
       THEN fail("validation", get[generation].error, generation, s7)
     ELSE IF get[ProviderKey(provider)].value = <<>> /\ ~ApiKeyOptional(provider)
       THEN fail("operational", "API key is required", ProviderKey(provider), s7)
     ELSE IF generation # <<>>
       THEN fail("validation", get[generation].error, generation, s7)
     ELSE IF ~env.generates
       THEN fail("operational", "generation failed", <<>>, s8)
     ELSE [End("success", "", <<>>, s8, 0) EXCEPT !.commits = prCommits])

(***************************************************************************)
(* Command line runs: the inputs                                           *)
(***************************************************************************)
MaxRuns == 2

ValidKeyLine == Chars("GROQ_API_KEY=gsk_1234567890abcdefghij")

CliFiles == {
  NoFile,
  [exists |-> TRUE, content |-> ValidKeyLine],
  [exists |-> TRUE, content |-> ValidKeyLine \o Chars("\nFILTER_COMMITS=maybe")],
  [exists |-> TRUE, content |-> ValidKeyLine \o Chars("\nLOCALE=xx")],
  [exists |-> TRUE, content |-> Chars("# local\nPROVIDER=openai\nFILTER_COMMITS=false")],
  [exists |-> TRUE, content |-> Chars("PROVIDER=azure")] }

ConfigTypes == {Chars("list"), Chars("set"), Chars("get"), Chars("remove"), Chars("reset")}

KeyValues(type) ==
  IF type = Chars("set")
    THEN {Chars("LOCALE=es"), Chars("LOCALE=invalid"), Chars("locale=es"),
          Chars("INVALID_KEY=value"), Chars("KEY_WITHOUT_EQUALS"), Chars("=value"),
          Chars("DEFAULT_BRANCH=feature/test=value"), Chars(" LOCALE =fr"),
          Chars("MAX_RETRIES=-1"), Chars("FILTER_COMMITS=false"), Chars("toString=x")}
  ELSE IF type \in {Chars("get"), Chars("remove")}
    THEN {Chars("LOCALE"), Chars(" LOCALE "), Chars("locale"), Chars("INVALID_KEY"),
          Chars("  "), Chars("FILTER_COMMITS"), Chars("GROQ_API_KEY"),
          Chars("constructor")}
  ELSE {<<>>}

GitLogs == {
  [ok |-> TRUE, log |-> <<Chars("feat: add user authentication"),
                          Chars("Merge branch 'feature' into main")>>],
  [ok |-> TRUE, log |-> <<Chars("run prettier")>>],
  [ok |-> TRUE, log |-> <<>>],
  [ok |-> FALSE, log |-> <<>>] }

BaseEnv ==
  [target |-> Chars("main"), locale |-> <<>>, context |-> <<>>, noFilter |-> FALSE,
   isRepo |-> TRUE, current |-> Chars("feature"),
   branches |-> <<Chars("main"), Chars("feature")>>, pick |-> 0,
   git |-> [ok |-> TRUE, log |-> <<Chars("feat: add user authentication"),
                                   Chars("Merge branch 'feature' into main")>>],
   generates |-> TRUE]

Envs ==
  {BaseEnv}
    \cup {[BaseEnv EXCEPT !.locale = l] : l \in {Chars("xx"), Chars("ES")}}
    \cup {[BaseEnv EXCEPT !.context = x] :
            x \in {Chars(" keep it short "), [i \in 1 .. MAX_CONTEXT_LENGTH + 1 |-> "a"]}}
    \cup {[BaseEnv EXCEPT !.git = g, !.noFilter = n] : g \in GitLogs, n \in BOOLEAN}
    \cup {[BaseEnv EXCEPT !.target = t, !.pick = k] :
            t \in {<<>>, Chars("feature"), Chars("gone")}, k \in 0 .. 1}
    \cup {[BaseEnv EXCEPT !.branches = <<Chars("feature")>>],
          [BaseEnv EXCEPT !.current = <<>>],
          [BaseEnv EXCEPT !.isRepo = FALSE, !.current = <<>>, !.branches = <<>>,
                          !.git = [ok |-> FALSE, log |-> <<>>]],
          [BaseEnv EXCEPT !.generates = FALSE]}

CliInit ==
  /\ file \in CliFiles
  /\ run = NoRun
  /\ cache = <<>>
  /\ loaded = FALSE
  /\ last = NoCall
  /\ ops = 0
  /\ AsyncIdle
  /\ FilterIdle
  /\ ValidatorIdle
  /\ ShellIdle

CliFrame ==
  UNCHANGED <<filterVars, cache, loaded, last, ops, asyncVars, validatorVars, shellVars>>

Ran(command, type, keyValue, key, env, end) ==
  [n |-> run.n + 1, command |-> command, type |-> type, keyValue |-> keyValue,
   key |-> key, called |-> end.called, outcome |-> end.outcome,
   message |-> end.message, about |-> end.about, exit |-> end.exit,
   shown |-> end.shown, commits |-> end.commits, target |-> end.target,
   env |-> env, before |-> file]

\* lazypr config <type> [keyValue]
RunConfig(type, keyValue) ==
  /\ run.n < MaxRuns
  /\ LET done == ConfigCommand(file, type, keyValue)
     IN /\ run' = Ran("config", type, keyValue, done.key, NoEnv, done.end)
        /\ file' = done.file
  /\ CliFrame

\* lazypr [target] [options]
RunMain(env) ==
  /\ run.n < MaxRuns
  /\ run' = Ran("main", <<>>, <<>>, <<>>, env, createPullRequest(file, env))
  /\ UNCHANGED file
  /\ CliFrame

\* getPullRequestCommits(targetBranch, noFilter), called on its own
RunGetPullRequestCommits(git, noFilter) ==
  /\ run.n < MaxRuns
  /\ run' = Ran("getPullRequestCommits", <<>>, <<>>, <<>>,
                [NoEnv EXCEPT !.isRepo = TRUE, !.git = git, !.noFilter = noFilter],
                [End("success", "", <<>>,
                     <<"git log">> \o (IF git.ok /\ git.log # <<>> /\ ~noFilter
                                         THEN <<"config.get">> ELSE <<>>), 0)
                   EXCEPT !.commits = getPullRequestCommits(Config_getEach(FreshLoad(file)), git,
                                                        noFilter)])
  /\ UNCHANGED file
  /\ CliFrame

CliNext ==
  \/ \E type \in ConfigTypes : \E keyValue \in KeyValues(type) : RunConfig(type, keyValue)
  \/ \E env \in Envs : RunMain(env)
  \/ \E git \in GitLogs : \E noFilter \in BOOLEAN : RunGetPullRequestCommits(git, noFilter)

SpecCli == CliInit /\ [][CliNext]_vars

(***************************************************************************)
(* Command line properties                                                 *)
(***************************************************************************)
KeyedConfigRun ==
  /\ run.command = "config"
  /\ run.type \in {Chars("set"), Chars("get"), Chars("remove")}
  /\ run.key # <<>>

\* C15: config set / get / remove with a key that is not a key of
\* CONFIG_SCHEMA reports an unknown key, exits with a non-zero status, calls
\* none of config.set / get / remove and leaves the file as it was.
C15_UnknownKeyRejected ==
  (KeyedConfigRun /\ run.key \notin ConfigKeys) =>
    /\ run.outcome = "unknown key"
    /\ run.exit # 0
    /\ run.called = <<>>
    /\ file = run.before

\* What does hold: the same for every key that is not the name of a property
\* of Object.prototype either.
C15_UnknownOwnKeyRejected ==
  (KeyedConfigRun /\ run.key \notin ConfigKeys \cup ObjectPrototypeKeys) =>
    /\ run.outcome = "unknown key"
    /\ run.exit # 0
    /\ run.called = <<>>
    /\ file = run.before

Failures == {"validation", "operational", "unknown key", "usage", "crash", "not found"}

\* C16: a run of the main command or of the config command that ends in a
\* validation or operational failure exits with a non-zero status; status 0
\* means success or cancellation by the user.
C16_FailureExitsNonZero ==
  run.command \in {"main", "config"} =>
    /\ run.outcome \in Failures => run.exit # 0
    /\ run.exit = 0 => run.outcome \in {"success", "cancel"}

\* What does hold: config set, config remove and the argument checks of the
\* config command exit with 1 on every failure.
C16_ConfigSetFailureExitsNonZero ==
  (run.command = "config" /\ run.outcome \in Failures \ {"not found"}) =>
    run.exit = configError_status

\* The value the file f stores for key fails the key's validator.
StoredInvalid(f, key) ==
  LET raw == MapGet(FreshLoad(f), key)
  IN raw.has /\ ~validate(key, raw.value).ok

\* C17: when the value stored for K fails K's validator, every operation
\* that reads K ends in an error that names K: config get K, config list and
\* getPullRequestCommits (which reads FILTER_COMMITS) among them.
C17_StoredInvalidValueSurfaces ==
  /\ (run.command = "config" /\ run.type = Chars("get") /\ run.key \in ConfigKeys
        /\ StoredInvalid(run.before, run.key)) =>
       run.outcome = "validation" /\ run.about = run.key
  /\ (run.command = "config" /\ run.type = Chars("list")
        /\ \E key \in ConfigKeys : StoredInvalid(run.before, key)) =>
       run.outcome = "validation"
  /\ (run.command = "getPullRequestCommits" /\ "config.get" \in Range(run.called)
        /\ StoredInvalid(run.before, K_FILTER_COMMITS)) =>
       run.outcome = "validation" /\ run.about = K_FILTER_COMMITS

(***************************************************************************)
(* The validators on their own                                             *)
(*                                                                         *)
(* CONFIG_SCHEMA[key].validate(raw) for the keys with numeric limits:      *)
(* CUSTOM_LABELS, CONTEXT, MAX_RETRIES and TIMEOUT.  The initial state     *)
(* draws the key and the raw value; one step applies the validator.        *)
(***************************************************************************)
K_CUSTOM_LABELS == Chars("CUSTOM_LABELS")
K_MAX_RETRIES == Chars("MAX_RETRIES")
K_TIMEOUT == Chars("TIMEOUT")

MaxLabels == 18           \* tokens in a CUSTOM_LABELS value
MaxContextLength == 201   \* characters of a CONTEXT value, before padding
MaxNumberLength == 3      \* characters of a MAX_RETRIES / TIMEOUT value

\* String.prototype.repeat for one character
Repeat(c, n) == [i \in 1 .. n |-> c]

\* Tokens of a CUSTOM_LABELS value: valid names (the longest one included),
\* invalid names, and tokens that trim to nothing.
LabelTokens ==
  {Chars("bug"), Chars("x_1-Y"), Chars(" pad "), Repeat("a", MAX_LABEL_NAME_LENGTH),
   Repeat("a", MAX_LABEL_NAME_LENGTH + 1), Chars("1abc"), Chars("bug fix"),
   Chars("-x"), <<>>, Chars(" ")}

\* n tokens, all "l" but the one at position p.
LabelList(n, p, odd) == [i \in 1 .. n |-> IF i = p THEN odd ELSE Chars("l")]

CustomLabelsInputs ==
  {pad \o Join(LabelList(n, p, odd), <<",">>) \o pad :
     n \in 0 .. MaxLabels, p \in {1, MaxLabels}, odd \in LabelTokens,
     pad \in {<<>>, Chars(" ")}}

\* n characters, with a blank in the middle when inner is set.
ContextText(n, inner) ==
  [i \in 1 .. n |-> IF inner /\ i = 2 /\ n >= 3 THEN " " ELSE "a"]

ContextInputs ==
  {left \o ContextText(n, inner) \o right :
     n \in 0 .. MaxContextLength, inner \in BOOLEAN,
     left \in {<<>>, Chars("  ")}, right \in {<<>>, Chars(" \n")}}

NumberAlphabet == {"0", "1", "5", "-", "+", ".", "a", " "}

RECURSIVE StringsUpTo(_, _)
StringsUpTo(alphabet, n) ==
  IF n = 0 THEN {<<>>}
  ELSE LET shorter == StringsUpTo(alphabet, n - 1)
       IN shorter \cup {<<c>> \o s : c \in alphabet, s \in {t \in shorter : Len(t) = n - 1}}

NumberInputs ==
  StringsUpTo(NumberAlphabet, MaxNumberLength)
    \cup {Chars("30000"), Chars("-1000"), Chars("invalid"), Chars("5abc"),
          Chars("0x10"), Chars("12px")}

Unchecked(key, raw) == [NoCheck EXCEPT !.key = key, !.raw = raw]

ValidateInit ==
  /\ checked \in
       {Unchecked(K_CUSTOM_LABELS, raw) : raw \in CustomLabelsInputs}
         \cup {Unchecked(K_CONTEXT, raw) : raw \in ContextInputs}
         \cup {Unchecked(key, raw) : key \in {K_MAX_RETRIES, K_TIMEOUT}, raw \in NumberInputs}
  /\ ConfigIdle
  /\ FilterIdle
  /\ AsyncIdle
  /\ CliIdle
  /\ ShellIdle

ValidateFrame ==
  UNCHANGED <<filterVars, file, cache, loaded, last, ops, asyncVars, cliVars, shellVars>>

Checked(result) == [checked EXCEPT !.done = TRUE, !.result = result]

ValidateCustomLabels ==
  /\ ~checked.done
  /\ checked.key = K_CUSTOM_LABELS
  /\ checked' = Checked(CUSTOM_LABELS_validate(checked.raw))
  /\ ValidateFrame

ValidateContext ==
  /\ ~checked.done
  /\ checked.key = K_CONTEXT
  /\ checked' = Checked(CONTEXT_validate(checked.raw))
  /\ ValidateFrame

ValidateMaxRetries ==
  /\ ~checked.done
  /\ checked.key = K_MAX_RETRIES
  /\ checked' = Checked(MAX_RETRIES_validate(checked.raw))
  /\ ValidateFrame

ValidateTimeout ==
  /\ ~checked.done
  /\ checked.key = K_TIMEOUT
  /\ checked' = Checked(TIMEOUT_validate(checked.raw))
  /\ ValidateFrame

ValidateNext ==
  \/ ValidateCustomLabels
  \/ ValidateContext
  \/ ValidateMaxRetries
  \/ ValidateTimeout

SpecValidate == ValidateInit /\ [][ValidateNext]_vars

(***************************************************************************)
(* Properties of the validators                                            *)
(*                                                                         *)
(* The expected results are stated from the text of the raw value, by      *)
(* positions, and not through the operators the validators use.            *)
(***************************************************************************)
Ink(s) == {i \in DOMAIN s : s[i] \notin WhiteSpace}

\* s without the white space at its two ends
Trimmed(s) ==
  IF Ink(s) = {} THEN <<>>
  ELSE LET lo == CHOOSE i \in DOMAIN s :
                   s[i] \notin WhiteSpace /\ \A j \in 1 .. i - 1 : s[j] \in WhiteSpace
           hi == CHOOSE i \in DOMAIN s :
                   s[i] \notin WhiteSpace /\ \A j \in i + 1 .. Len(s) : s[j] \in WhiteSpace
       IN SubSeq(s, lo, hi)

Commas(s) == {i \in DOMAIN s : s[i] = ","}
PieceStarts(s) == {1} \cup {i + 1 : i \in Commas(s)}
PieceEnd(s, a) ==
  IF \E i \in Commas(s) : i >= a
    THEN (CHOOSE i \in Commas(s) : i >= a /\ \A j \in Commas(s) : j >= a => i <= j) - 1
    ELSE Len(s)

\* the token that starts at position a of s
TokenAt(s, a) == Trimmed(SubSeq(s, a, PieceEnd(s, a)))
KeptStarts(s) == {a \in PieceStarts(s) : TokenAt(s, a) # <<>>}

IsLabelName(t) ==
  /\ Len(t) \in 1 .. 50
  /\ t[1] \in Letters
  /\ \A i \in 2 .. Len(t) : t[i] \in Alnum \cup {"_", "-"}

RECURSIVE JoinedTokens(_, _)
JoinedTokens(s, starts) ==
  IF starts = {} THEN <<>>
  ELSE LET a == CHOOSE x \in starts : \A y \in starts : x <= y
           rest == starts \ {a}
       IN TokenAt(s, a) \o (IF rest = {} THEN <<>> ELSE <<",">> \o JoinedTokens(s, rest))

CheckedKey(key) == checked.done /\ checked.key = key

\* C18: CUSTOM_LABELS.validate accepts a raw value exactly when its comma
\* separated tokens, trimmed and with the empty ones dropped, are at most 17
\* and each is a letter followed by at most 49 letters, digits, "_" or "-";
\* the result is those tokens joined with ",".  So 17 valid tokens are
\* accepted, 18 are rejected, and a token that starts with a digit is rejected.
C18_CustomLabelsLimit ==
  CheckedKey(K_CUSTOM_LABELS) =>
    LET starts == KeptStarts(checked.raw)
    IN /\ checked.result.ok <=>
            /\ Cardinality(starts) <= 17
            /\ \A a \in starts : IsLabelName(TokenAt(checked.raw, a))
       /\ checked.result.ok => checked.result.value = JoinedTokens(checked.raw, starts)

\* 17 valid tokens, one of them of 50 characters, are accepted.
C18_Witness ==
  /\ CheckedKey(K_CUSTOM_LABELS)
  /\ Cardinality(KeptStarts(checked.raw)) = 17
  /\ \E a \in KeptStarts(checked.raw) : Len(TokenAt(checked.raw, a)) = 50
  /\ checked.result.ok
  /\ Len(Split(checked.result.value, ",")) = 17

\* C19: CONTEXT.validate accepts a raw value exactly when, without the white
\* space at its ends, it has at most 200 characters (UTF-16 code units), and
\* the result is that trimmed text; a text of 200 characters with no white
\* space at its ends is accepted unchanged, one of 201 is rejected.
C19_ContextLimit ==
  CheckedKey(K_CONTEXT) =>
    LET text == Trimmed(checked.raw)
    IN /\ checked.result.ok <=> Len(text) <= 200
       /\ checked.result.ok => checked.result.value = text
       /\ (Len(checked.raw) = 200 /\ text = checked.raw) =>
            checked.result.ok /\ checked.result.value = checked.raw
       /\ Len(text) = 201 => ~checked.result.ok

\* A padded text of 200 characters is accepted and comes back trimmed.
C19_Witness ==
  /\ CheckedKey(K_CONTEXT)
  /\ Len(checked.raw) > 200
  /\ checked.result.ok
  /\ Len(checked.result.value) = 200
  /\ checked.result.value # checked.raw

IsDigits(s) == s # <<>> /\ \A i \in DOMAIN s : s[i] \in Range(Digits)

\* The text, white space at its ends aside, is the decimal notation of an
\* integer that is at least 0: digits, after an optional sign; after "-" only
\* zeros.
DenotesNonNegativeInteger(s) ==
  LET t == Trimmed(s)
      signed == t # <<>> /\ t[1] \in {"+", "-"}
      body == IF signed THEN SubSeq(t, 2, Len(t)) ELSE t
  IN /\ IsDigits(body)
     /\ (signed /\ t[1] = "-") => \A i \in DOMAIN body : body[i] = "0"

\* The digits of that integer without leading zeros.
CanonicalDecimal(s) ==
  LET t == Trimmed(s)
      body == IF t[1] \in {"+", "-"} THEN SubSeq(t, 2, Len(t)) ELSE t
      significant == {i \in DOMAIN body : body[i] # "0"}
  IN IF significant = {} THEN <<"0">>
     ELSE SubSeq(body, CHOOSE i \in significant : \A j \in significant : i <= j, Len(body))

CheckedNumber == checked.done /\ checked.key \in {K_MAX_RETRIES, K_TIMEOUT}

\* C20: MAX_RETRIES.validate and TIMEOUT.validate accept a raw value only if
\* it denotes an integer that is at least 0, and the result is the canonical
\* decimal string of that integer; every other value ("-1", "abc", "5abc",
\* "1.5") is rejected.
C20_OnlyIntegersAccepted ==
  CheckedNumber =>
    /\ checked.result.ok <=> DenotesNonNegativeInteger(checked.raw)
    /\ checked.result.ok /\ DenotesNonNegativeInteger(checked.raw) =>
         checked.result.value = CanonicalDecimal(checked.raw)

\* What does hold: the notation of an integer that is at least 0 is accepted
\* with its canonical decimal string, and a value with no digit after the
\* optional sign, or a negative one, is rejected.
C20_IntegersAcceptedNegativesRejected ==
  CheckedNumber =>
    /\ DenotesNonNegativeInteger(checked.raw) =>
         checked.result.ok /\ checked.result.value = CanonicalDecimal(checked.raw)
    /\ ~checked.result.ok =>
         checked.result.error \in {"MAX_RETRIES must be a non-negative number",
                                   "TIMEOUT must be a non-negative number"}
    /\ (Trimmed(checked.raw) # <<>> /\ Trimmed(checked.raw)[1] \notin Range(Digits) \cup {"+", "-"}) =>
         ~checked.result.ok

(***************************************************************************)
(* Properties of the commits of a run                                      *)
(***************************************************************************)
MessagesOf(cs) == [i \in DOMAIN cs |-> cs[i].message]

\* What config.get("FILTER_COMMITS") gives a process that starts on file f.
FilterSetting(f) == Config_get(FreshLoad(f), K_FILTER_COMMITS)

\* The run got a list of commits from git log: getPullRequestCommits on its
\* own, or the main command that went on with that list.
GotCommits ==
  \/ run.command = "getPullRequestCommits" /\ run.env.git.ok
  \/ run.command = "main" /\ run.outcome = "success"

\* C21: with noFilter the commits are all those of git log, and the config
\* is not read for it; without noFilter they are the commits that
\* shouldFilterCommit keeps when FILTER_COMMITS is "true", and all of them
\* when it is "false".  So --no-filter overrides FILTER_COMMITS=true.
C21_FilterToggle ==
  GotCommits =>
    LET log == run.env.git.log
        setting == FilterSetting(run.before)
        keptByFilter == SelectSeq(log, LAMBDA m : ~shouldFilterCommit([message |-> m]))
    IN /\ run.env.noFilter =>
            /\ MessagesOf(run.commits) = log
            /\ run.command = "getPullRequestCommits" => "config.get" \notin Range(run.called)
       /\ (~run.env.noFilter /\ setting = Ok(Chars("true"))) =>
            MessagesOf(run.commits) = keptByFilter
       /\ (~run.env.noFilter /\ setting = Ok(Chars("false"))) =>
            MessagesOf(run.commits) = log

\* --no-filter with FILTER_COMMITS at its default "true": the merge commit
\* that the filter would drop is among the commits of the main command.
C21_Witness ==
  /\ run.command = "main" /\ run.outcome = "success"
  /\ run.env.noFilter
  /\ FilterSetting(run.before) = Ok(Chars("true"))
  /\ Len(run.commits) = 2
  /\ run.commits[2].message = Chars("Merge branch 'feature' into main")

\* C22: when git log fails (the target branch does not exist),
\* getPullRequestCommits rejects with "Branch or revision not found"; it
\* does not resolve to a list of commits.
C22_MissingBranchRejects ==
  (run.command = "getPullRequestCommits" /\ ~run.env.git.ok) =>
    /\ run.outcome = "rejected"
    /\ run.message = "Branch or revision not found"

(***************************************************************************)
(* The documented examples of filtered commits                             *)
(***************************************************************************)
\* C23: shouldFilterCommit gives true for every message the documentation
\* lists as filtered.
C23_DocumentedExamplesFiltered ==
  (probe.kind # "none" /\ probe.message \in DocumentedExamples) => probe.verdict

\* What does hold: of the documented examples, those that start with "Merge
\* branch", "Merge pull request", "bump ... to <version>", "style:" or "Fix
\* linting" are filtered.
C23_DocumentedExamplesMatchingAPattern ==
  (probe.kind # "none"
     /\ probe.message \in {Chars("Merge branch 'feature' into main"),
                           Chars("Merge pull request #123"),
                           Chars("bump version to 1.2.3"),
                           Chars("style: format code with prettier"),
                           Chars("Fix linting issues")}) => probe.verdict

(***************************************************************************)
(* Order of the steps of the main command                                  *)
(***************************************************************************)
GitQueries == {"getCurrentBranch", "getAllBranches", "getPullRequestCommits"}

\* The provider a process that starts on file f is configured with.
ProviderOf(f) == Config_get(FreshLoad(f), K_PROVIDER)

\* What config.get gives that process for the provider's API key.
ApiKeyOf(f) == Config_get(FreshLoad(f), ProviderKey(ProviderOf(f).value))

\* The provider's key is there, or the provider does not need one.
HasUsableKey(f) ==
  /\ ProviderOf(f).ok
  /\ ApiKeyOf(f).ok
  /\ ApiKeyOptional(ProviderOf(f).value) \/ ApiKeyOf(f).value # <<>>

\* The provider needs a key and none is set.
MissingKey(f) ==
  /\ ProviderOf(f).ok
  /\ ~ApiKeyOptional(ProviderOf(f).value)
  /\ ApiKeyOf(f) = Ok(<<>>)

OptionsRejected == run.message \in {"Invalid locale", "Invalid context"}

\* C24: in a run of the main command, generatePullRequest and the provider
\* are called only with a usable API key (non-empty, or optional for the
\* provider); with a missing key the run ends before it asks git for the
\* current branch, the branches or the commits, and it reports the key
\* (unless a --locale or --context option was rejected even earlier).
C24_ApiKeyBeforeDependentWork ==
  run.command = "main" =>
    /\ (Range(run.called) \cap {"generatePullRequest", "generateObject"} # {}) =>
         HasUsableKey(run.before)
    /\ MissingKey(run.before) =>
         /\ Range(run.called) \cap GitQueries = {}
         /\ run.outcome # "success"
         /\ ~OptionsRejected =>
              /\ run.message = "API key is required"
              /\ run.about = ProviderKey(ProviderOf(run.before).value)
              /\ run.called[Len(run.called)] = "validateProviderApiKey"

\* A run without a configuration file: the GROQ key is missing, and the run
\* ends at validateProviderApiKey although the repository has commits.
C24_Witness ==
  /\ run.command = "main"
  /\ ~run.before.exists
  /\ MissingKey(run.before)
  /\ run.env.current # <<>> /\ run.env.git.ok /\ run.env.git.log # <<>>
  /\ run.message = "API key is required"
  /\ run.about = Chars("GROQ_API_KEY")
  /\ run.called = <<"isGitRepository", "validateProviderApiKey">>


\* C25: when isGitRepository() is false, the main command stops with "Not a
\* git repository" before it validates the provider API key, asks git for
\* branches or commits, or calls the provider.
C25_NotARepositoryStops ==
  (run.command = "main" /\ ~run.env.isRepo /\ ~OptionsRejected) =>
    /\ run.message = "Not a git repository"
    /\ Range(run.called)
         \cap (GitQueries \cup {"validateProviderApiKey", "generatePullRequest",
                                "generateObject"}) = {}

(***************************************************************************)
(* Persistence round trip                                                  *)
(***************************************************************************)
\* A Map as the function from its keys to their values.
AsFunction(m) == [key \in {m[i][1] : i \in DOMAIN m} |-> MapGet(m, key).value]

\* C26: after a set, remove or clear that saved, parsing the file the way
\* load does gives the same key -> value map as the cache, for every accepted
\* value, those with "=", "#", inner spaces or line breaks included.
C26_SavedFileParsesToCache ==
  Saved => AsFunction(ParseConfig(file.content)) = AsFunction(cache)

\* What does hold: the round trip of every map whose values contain no line
\* break.
C26_SavedFileParsesToCacheWithoutLineBreaks ==
  (Saved /\ \A e \in Range(cache) : "\n" \notin Range(e[2])) =>
    AsFunction(ParseConfig(file.content)) = AsFunction(cache)

(***************************************************************************)
(* Overlapping writers                                                     *)
(***************************************************************************)
AllCompleted == \A p \in Callers : calls[p].pc = "done"
Writers == {p \in Callers : calls[p].op \in {"set", "remove"}}

\* C27: when set/remove calls on the one Config instance overlap and their
\* file writes complete in any order, then once all have completed the file
\* is the serialization of the final map: no completed update is missing.
C27_OverlappingWritersPersistAll ==
  (AllCompleted /\ Writers = Callers /\ io.foreign = 0) => file = Written(cache)

\* What does hold: with one writer among the callers the file is the
\* serialization of the final map.
C27_SingleWriterPersists ==
  (AllCompleted /\ Cardinality(Writers) = 1 /\ io.foreign = 0) => file = Written(cache)

(***************************************************************************)
(* clear() among overlapping calls                                         *)
(*                                                                         *)
(* clear() does not go through load(): it empties the cache and starts its *)
(* write whatever the state of the load.                                   *)
(***************************************************************************)
\* config.clear() is called: this.cache.clear(), then save() up to writeFile
ClearStarts(p) ==
  /\ calls[p].pc = "idle"
  /\ \A q \in Callers : q < p => calls[q].pc # "idle"
  /\ cache' = Config_clear(cache)
  /\ calls' = [calls EXCEPT ![p] =
                 [NotCalled EXCEPT !.pc = "save", !.op = "clear",
                                   !.content = Serialize(cache'), !.at = io.foreign]]
  /\ UNCHANGED <<file, loaded, loadPromise, io>>
  /\ AsyncFrame

ClearNext ==
  \/ \E p \in Callers : ClearStarts(p)
  \/ AsyncNext

SpecClear == AsyncInit /\ [][ClearNext]_vars

Clearers == {p \in Callers : calls[p].op = "clear"}
Getters == {p \in Callers : calls[p].op = "get"}

\* C28: clear() overlapping a first get or set (whose read has not started
\* or is in flight): once all have completed the map is empty and so is the
\* file, a later get returns the default of every key, and no value from
\* before the clear is back.  Stated for clear() with gets.
C28_ClearWinsOverLoad ==
  (AllCompleted /\ Clearers # {} /\ Clearers \cup Getters = Callers /\ io.foreign = 0) =>
    /\ cache = <<>>
    /\ file = Written(<<>>)
    /\ \A key \in ConfigKeys : Config_get(Config_load, key) = Ok(DefaultOf(key))

\* What does hold: when clear() is the only writer, the file is empty once
\* all calls have completed.
C28_ClearEmptiesFile ==
  (AllCompleted /\ Clearers # {} /\ Clearers \cup Getters = Callers /\ io.foreign = 0) =>
    file = Written(<<>>)

(***************************************************************************)
(* The target branch of the main command                                   *)
(***************************************************************************)
\* The target the run starts from: the argument, or DEFAULT_BRANCH.
InitialTarget ==
  IF run.env.target # <<>> THEN run.env.target
  ELSE Config_get(FreshLoad(run.before), K_DEFAULT_BRANCH).value

OtherBranches == Range(run.env.branches) \ {run.env.current}

NeedsSelection ==
  InitialTarget = run.env.current \/ InitialTarget \notin Range(run.env.branches)

BACKSLASH == "\\"
QUOTE == "'"
\* U+0060 GRAVE ACCENT, the backtick.
BACKTICK == "U+0060"
DOLLAR == "$"
NEWLINE == "\n"

\* String.prototype.replace(/c/g, by) for a one-character pattern.
RECURSIVE ReplaceAll(_, _, _)
ReplaceAll(str, c, by) ==
  IF str = <<>> THEN <<>>
  ELSE (IF Head(str) = c THEN by ELSE <<Head(str)>>) \o ReplaceAll(Tail(str), c, by)

\* escapeShellArg(str): five replacements, one after the other
escapeShellArg(str) ==
  LET s1 == ReplaceAll(str, BACKSLASH, <<BACKSLASH, BACKSLASH>>)
      s2 == ReplaceAll(s1, QUOTE, <<BACKSLASH, QUOTE>>)
      s3 == ReplaceAll(s2, BACKTICK, <<BACKSLASH, BACKTICK>>)
      s4 == ReplaceAll(s3, DOLLAR, <<BACKSLASH, DOLLAR>>)
  IN ReplaceAll(s4, NEWLINE, <<BACKSLASH, "n">>)

\* `-l "${labels.join(", ")}"`, or nothing without labels
labelsArg(labels) ==
  IF Len(labels) > 0
    THEN Chars("-l \"") \o Join(labels, Chars(", ")) \o Chars("\"")
    ELSE <<>>

\* the template literal shared by buildGhPrCommand and the --gh branch
ghTemplate(targetBranch, labels, escapedTitle, escapedDescription) ==
  Chars("gh pr create -B ") \o targetBranch \o <<" ">> \o labelsArg(labels)
    \o Chars(" -t $'") \o escapedTitle \o Chars("' -b $'")
    \o escapedDescription \o <<QUOTE>>

\* buildGhPrCommand(targetBranch, pullRequest)
buildGhPrCommand(targetBranch, pullRequest) ==
  ghTemplate(targetBranch, pullRequest.labels,
             escapeShellArg(pullRequest.title),
             escapeShellArg(pullRequest.description))

\* createPullRequest with options.gh: the same escaping, written inline.
ghCommand(targetBranch, pullRequest) ==
  LET inlineEscapeShellArg(str) ==
        ReplaceAll(ReplaceAll(ReplaceAll(ReplaceAll(ReplaceAll(str,
          BACKSLASH, <<BACKSLASH, BACKSLASH>>),
          QUOTE, <<BACKSLASH, QUOTE>>),
          BACKTICK, <<BACKSLASH, BACKTICK>>),
          DOLLAR, <<BACKSLASH, DOLLAR>>),
          NEWLINE, <<BACKSLASH, "n">>)
  IN ghTemplate(targetBranch, pullRequest.labels,
                inlineEscapeShellArg(pullRequest.title),
                inlineEscapeShellArg(pullRequest.description))

MaxArgLength == 2

ShellAlphabet == {BACKSLASH, QUOTE, BACKTICK, DOLLAR, NEWLINE, "n", "a"}

ShellTexts == StringsUpTo(ShellAlphabet, MaxArgLength)

ShellLabels == {<<>>, <<Chars("bug"), Chars("enhancement")>>}

ShellInit ==
  /\ gh \in {[NoCommand EXCEPT !.title = t, !.description = d, !.labels = l,
                               !.targetBranch = Chars("main")] :
               t \in ShellTexts, d \in ShellTexts, l \in ShellLabels}
  /\ ConfigIdle
  /\ FilterIdle
  /\ AsyncIdle
  /\ CliIdle
  /\ ValidatorIdle

ShellFrame ==
  UNCHANGED <<filterVars, file, cache, loaded, last, ops, asyncVars, cliVars, validatorVars>>

PullRequestOf(g) == [title |-> g.title, description |-> g.description, labels |-> g.labels]

\* A caller of buildGhPrCommand.
BuildGhPrCommand ==
  /\ ~gh.done
  /\ gh' = [gh EXCEPT !.done = TRUE, !.by = "buildGhPrCommand",
                      !.command = buildGhPrCommand(gh.targetBranch, PullRequestOf(gh))]
  /\ ShellFrame

\* The --gh branch of the main command: the command is built, the user is
\* asked, and the command is copied when they agree.
CreatePullRequestGh(copyCommand) ==
  /\ ~gh.done
  /\ LET command == ghCommand(gh.targetBranch, PullRequestOf(gh))
     IN gh' = [gh EXCEPT !.done = TRUE, !.by = "createPullRequest",
                         !.command = command,
                         !.clipboard = IF copyCommand THEN command ELSE <<>>]
  /\ ShellFrame

ShellNext ==
  \/ BuildGhPrCommand
  \/ \E copyCommand \in BOOLEAN : CreatePullRequestGh(copyCommand)

SpecShell == ShellInit /\ [][ShellNext]_vars

\* ANSI-C quoting, read from position i of a command line up to the quote
\* that ends the argument: \\ is \, \' is ', \n is a newline, a backslash
\* before another character stays together with that character.
RECURSIVE AnsiC(_, _, _)
AnsiC(line, i, text) ==
  IF i > Len(line) THEN [closed |-> FALSE, text |-> text, next |-> i]
  ELSE IF line[i] = QUOTE THEN [closed |-> TRUE, text |-> text, next |-> i + 1]
  ELSE IF line[i] = BACKSLASH /\ i < Len(line)
    THEN AnsiC(line, i + 2,
               text \o (CASE line[i + 1] = BACKSLASH -> <<BACKSLASH>>
                          [] line[i + 1] = QUOTE -> <<QUOTE>>
                          [] line[i + 1] = "n" -> <<NEWLINE>>
                          [] OTHER -> <<BACKSLASH, line[i + 1]>>))
  ELSE AnsiC(line, i + 1, text \o <<line[i]>>)

\* The position after the first $' of a command line.
FirstArgument(line) ==
  LET opens == {i \in 1 .. Len(line) - 1 : line[i] = DOLLAR /\ line[i + 1] = QUOTE}
  IN (CHOOSE i \in opens : \A j \in opens : i <= j) + 2

Between == Chars(" -b $'")

\* The two $'...' arguments of a command line, as a shell reads them.
ShellReads(line) ==
  LET t == AnsiC(line, FirstArgument(line), <<>>)
      joined == t.closed /\ SubSeq(line, t.next, t.next + Len(Between) - 1) = Between
      d == IF joined THEN AnsiC(line, t.next + Len(Between), <<>>)
           ELSE [closed |-> FALSE, text |-> <<>>, next |-> 0]
  IN [whole |-> joined /\ d.closed /\ d.next = Len(line) + 1,
      title |-> t.text, description |-> d.text]

Built == gh.done

\* C30: read back with ANSI-C quoting, the two arguments of the command built
\* by buildGhPrCommand, and by the --gh branch of the main command, are the
\* title and the description, whatever quotes, backslashes, backticks,
\* dollar signs and newlines they contain.
C30_ShellRoundTrip ==
  Built =>
    LET read == ShellReads(gh.command)
    IN read.whole /\ read.title = gh.title /\ read.description = gh.description

Plain(s) == \A i \in DOMAIN s : s[i] \notin {BACKTICK, DOLLAR}

\* No title or description ends its argument early, and those without
\* backticks and dollar signs come back as they were; each backtick and
\* dollar sign comes back with a backslash before it.
C30_RoundTripUpToBackticksAndDollars ==
  Built =>
    LET read == ShellReads(gh.command)
        asRead(s) == ReplaceAll(ReplaceAll(s, BACKTICK, <<BACKSLASH, BACKTICK>>),
                              DOLLAR, <<BACKSLASH, DOLLAR>>)
    IN /\ read.whole
       /\ read.title = asRead(gh.title)
       /\ read.description = asRead(gh.description)
       /\ (Plain(gh.title) /\ Plain(gh.description)) =>
            (read.title = gh.title /\ read.description = gh.description)

=============================================================================
